---- MODULE Spec2Model ----
(***************************************************************************)
(* A model of the PyKMP codec stack (src/src/pykmp/codec.py) and of the    *)
(* requests and responses of src/src/pykmp/messages.py.                    *)
(*                                                                         *)
(* Byte strings are sequences over 0..255.  An operation's outcome is a    *)
(* record: kind = "ok" with the returned value, or kind = the name of the  *)
(* exception class that the code raises, with that exception's fields.     *)
(***************************************************************************)
EXTENDS Integers, Sequences, FiniteSets, TLC

VARIABLES
    pc,              \* position of the driver that calls the codec under study
    direction,       \* PhysicalCodec.direction
    data_bytes,      \* argument of PhysicalCodec.encode
    frame,           \* argument of PhysicalCodec.decode
    phys_encoded,    \* outcome of PhysicalCodec.encode
    phys_decoded,    \* outcome of PhysicalCodec.decode
    phys_ack,        \* outcome of PhysicalCodec.encode_ack
    dl_data,         \* argument of DataLinkCodec.encode (a DataLinkData)
    raw,             \* argument of DataLinkCodec.decode
    dl_encoded,      \* outcome of DataLinkCodec.encode
    dl_decoded,      \* outcome of DataLinkCodec.decode
    fl_data,         \* argument of FloatCodec.decode / decode_int_or_float
    fl_decoded,      \* outcome of FloatCodec.decode(fl_data)
    fl_int_or_float, \* outcome of FloatCodec.decode_int_or_float(fl_data)
    to_encode,       \* argument of FloatCodec.encode
    significand_num_bytes,   \* argument of FloatCodec.encode
    fl_encoded,      \* outcome of FloatCodec.encode
    fl_redecoded,    \* outcome of FloatCodec.decode of the encoded bytes
    reg_records,     \* the RegisterData records the response payload is built from
    reg_app_data,    \* argument of GetRegisterResponse.decode (an ApplicationData)
    bytes_remaining, \* local of GetRegisterResponse.decode
    registers,       \* local of GetRegisterResponse.decode, in insertion order
    reg_warnings,    \* the warnings logged so far, in order
    reg_decoded,     \* outcome of GetRegisterResponse.decode
    reg_encoded,     \* outcome of encode() of the decoded GetRegisterResponse
    reg_iterations,  \* history: iterations of the loop of decode begun so far
    app_to_encode,   \* argument of ApplicationCodec.encode (an ApplicationData)
    app_bytes,       \* argument of ApplicationCodec.decode
    app_encoded,     \* outcome of ApplicationCodec.encode
    app_decoded,     \* outcome of ApplicationCodec.decode
    msg_class,       \* the message class in use
    msg_args,        \* arguments of the message class's constructor
    msg_app_data,    \* argument of the message class's decode (an ApplicationData)
    msg_object,      \* outcome of the constructor or of decode: the message
    msg_warnings,    \* the warnings logged by decode, in order
    msg_encoded,     \* outcome of encode() of the message
    cl_destination_address,  \* argument of ClientCommunicator.send_request
    cl_message,      \* argument of send_request: the request object
    cl_incoming,     \* the bytes the serial port delivers before it falls silent
    cl_encoded,      \* outcome of ClientCodec.encode in send_request
    cl_io,           \* history: the calls of write and read made so far, in order
    cl_received,     \* outcome of read() in send_request
    cl_result        \* outcome of send_request

vars == <<pc, direction, data_bytes, frame, phys_encoded, phys_decoded, phys_ack,
          dl_data, raw, dl_encoded, dl_decoded,
          fl_data, fl_decoded, fl_int_or_float, to_encode, significand_num_bytes,
          fl_encoded, fl_redecoded,
          reg_records, reg_app_data, bytes_remaining, registers, reg_warnings,
          reg_decoded, reg_encoded, reg_iterations,
          app_to_encode, app_bytes, app_encoded, app_decoded,
          msg_class, msg_args, msg_app_data, msg_object, msg_warnings, msg_encoded,
          cl_destination_address, cl_message, cl_incoming, cl_encoded, cl_io,
          cl_received, cl_result>>

physVars == <<direction, data_bytes, frame, phys_encoded, phys_decoded, phys_ack>>
dlVars == <<dl_data, raw, dl_encoded, dl_decoded>>
floatVars == <<fl_data, fl_decoded, fl_int_or_float, to_encode, significand_num_bytes,
               fl_encoded, fl_redecoded>>
regVars == <<reg_records, reg_app_data, bytes_remaining, registers, reg_warnings,
             reg_decoded, reg_encoded, reg_iterations>>
appVars == <<app_to_encode, app_bytes, app_encoded, app_decoded>>
msgVars == <<msg_class, msg_args, msg_app_data, msg_object, msg_warnings, msg_encoded>>
clientVars == <<cl_destination_address, cl_message, cl_incoming, cl_encoded, cl_io,
                cl_received, cl_result>>

-----------------------------------------------------------------------------
(* Generic helpers on byte strings.                                        *)

Byte == 0..255

\* The value a variable holds before the operation that sets it has run.
NoResult == [kind |-> "none"]

Ok(v) == [kind |-> "ok", val |-> v]

\* All sequences over S of length lo..hi.
SeqsBetween(S, lo, hi) == UNION {[1..n -> S] : n \in lo..hi}

\* Python slice s[i:] for 0 <= i (0-based).
SliceFrom(s, i) == SubSeq(s, i + 1, Len(s))

\* Python slice s[i:j] for 0 <= i <= j (0-based, j exclusive, clipped).
Slice(s, i, j) == SubSeq(s, i + 1, IF j < Len(s) THEN j ELSE Len(s))

\* bytes.replace(old, new): left to right, non-overlapping, old non-empty.
RECURSIVE replace(_, _, _)
replace(s, old, new) ==
    IF Len(s) < Len(old) THEN s
    ELSE IF SubSeq(s, 1, Len(old)) = old
         THEN new \o replace(SubSeq(s, Len(old) + 1, Len(s)), old, new)
         ELSE <<Head(s)>> \o replace(Tail(s), old, new)

\* Bit k of the natural a.
Bit(a, k) == (a \div (2 ^ k)) % 2

\* Bitwise exclusive or of two naturals below 2 ** 16.
Xor(a, b) ==
    LET X(k) == ((Bit(a, k) + Bit(b, k)) % 2) * (2 ^ k)
    IN  X(0) + X(1) + X(2) + X(3) + X(4) + X(5) + X(6) + X(7)
        + X(8) + X(9) + X(10) + X(11) + X(12) + X(13) + X(14) + X(15)

\* int.from_bytes(two bytes, "big")
FromBytes2(bs) == (bs[1] * 256) + bs[2]

\* A variant with little-endian byte order.
ToBytes2_little_endian(n) == <<n % 256, n \div 256>>

\* (n).to_bytes(2, "big")
ToBytes2(n) == <<n \div 256, n % 256>>

-----------------------------------------------------------------------------
(* constants.ByteCode                                                      *)

STUFFING == 27           \* 0x1B
ACK == 6                 \* 0x06
START_FROM_METER == 64   \* 0x40
START_TO_METER == 128    \* 0x80
STOP == 13               \* 0x0D

ACK_BYTES == <<ACK>>

-----------------------------------------------------------------------------
(* PhysicalCodec                                                           *)

PhysicalDirection == {"TO_METER", "FROM_METER"}

\* A variant of the map without the entry of the stop byte.
BYTE_STUFFING_MAP_without_stop ==
    [i \in 1..4 |->
        LET the_byte == <<STUFFING, ACK, START_FROM_METER, START_TO_METER>>[i]
        IN  <<(<<the_byte>>), (<<STUFFING, Xor(the_byte, 255)>>)>>]

\* The items of BYTE_STUFFING_MAP in insertion order: <<unescaped, escaped>>.
BYTE_STUFFING_MAP ==
    [i \in 1..5 |->
        LET the_byte == <<STUFFING, ACK, START_FROM_METER, START_TO_METER, STOP>>[i]
        IN  <<(<<the_byte>>), (<<STUFFING, Xor(the_byte, 255)>>)>>]

\* A variant with the start bytes of the two directions swapped.
_direction_to_start_byte_swapped(d) ==
    IF d = "TO_METER" THEN START_FROM_METER ELSE START_TO_METER

_direction_to_start_byte(d) ==
    IF d = "FROM_METER" THEN START_FROM_METER ELSE START_TO_METER

\* The loop of PhysicalCodec.encode over the map's items, from item i on.
RECURSIVE StuffFrom(_, _)
StuffFrom(bs, i) ==
    IF i > Len(BYTE_STUFFING_MAP) THEN bs
    ELSE StuffFrom(replace(bs, BYTE_STUFFING_MAP[i][1], BYTE_STUFFING_MAP[i][2]), i + 1)

\* The loop of PhysicalCodec.decode over the map's items, from item i on.
RECURSIVE DestuffFrom(_, _)
DestuffFrom(bs, i) ==
    IF i > Len(BYTE_STUFFING_MAP) THEN bs
    ELSE DestuffFrom(replace(bs, BYTE_STUFFING_MAP[i][2], BYTE_STUFFING_MAP[i][1]), i + 1)

PhysicalEncode(d, bs) ==
    IF Len(bs) = 0
    THEN [kind |-> "DataLengthUnexpectedError", what |-> "Data link bytes", actual |-> 0]
    ELSE Ok(<<_direction_to_start_byte(d)>> \o StuffFrom(bs, 1) \o <<STOP>>)

PhysicalDecode(d, f) ==
    IF Len(f) = 0
    THEN [kind |-> "DataLengthUnexpectedError", what |-> "Frame", actual |-> 0]
    ELSE IF f = ACK_BYTES
    THEN [kind |-> "AckReceivedException"]
    ELSE IF f[1] # _direction_to_start_byte(d)
    THEN [kind |-> "BoundaryByteInvalidError", what |-> "start",
          actual_byte |-> f[1], expected_byte |-> _direction_to_start_byte(d)]
    ELSE IF f[Len(f)] # STOP
    THEN [kind |-> "BoundaryByteInvalidError", what |-> "stop",
          actual_byte |-> f[Len(f)], expected_byte |-> STOP]
    ELSE Ok(DestuffFrom(SubSeq(f, 2, Len(f) - 1), 1))

\* A variant that frames the acknowledgement like data.
PhysicalEncodeAck_framed == <<START_TO_METER>> \o ACK_BYTES \o <<STOP>>

PhysicalEncodeAck == ACK_BYTES

-----------------------------------------------------------------------------
(* CRC-16, DataLinkCodec                                                   *)

CRC_WIDTH == 16
CRC_POLYNOMIAL == 4129   \* 0x1021
CRC_INIT_VALUE == 0
CRC_FINAL_XOR_VALUE == 0

CrcModulus == 2 ^ CRC_WIDTH

\* One shift of the CRC register (MSB first, no reflection).
CrcShift(c) ==
    IF c >= CrcModulus \div 2
    THEN Xor((c * 2) % CrcModulus, CRC_POLYNOMIAL)
    ELSE c * 2

\* n shifts of the CRC register st.c, st.n of them done.
RECURSIVE CrcShifts(_, _)
CrcShifts(st, n) ==
    IF st.n = n THEN st.c ELSE CrcShifts([c |-> CrcShift(st.c), n |-> st.n + 1], n)

\* The register after feeding one more byte.
CrcByte(c, b) == CrcShifts([c |-> Xor(c, b * (CrcModulus \div 256)), n |-> 0], 8)

\* The register after feeding the bytes of bs from the register st.c, the
\* first st.i bytes being fed already.
RECURSIVE CrcFeed(_, _)
CrcFeed(st, bs) ==
    IF st.i = Len(bs) THEN st.c
    ELSE CrcFeed([c |-> CrcByte(st.c, bs[st.i + 1]), i |-> st.i + 1], bs)

\* crc_calculator.checksum(data)
checksum(bs) ==
    Xor(CrcFeed([c |-> CRC_INIT_VALUE, i |-> 0], bs), CRC_FINAL_XOR_VALUE)

\* A variant in which the two checksum bytes are left out of
\* the verification.
verify_without_crc_bytes(bs, expected) ==
    checksum(SubSeq(bs, 1, Len(bs) - 2)) = expected

\* crc_calculator.verify(data, expected)
verify(bs, expected) == checksum(bs) = expected

DATA_LINK_BYTES_LENGTH_MIN == 4
APPLICATION_BYTES_LENGTH_MIN == 1

DataLinkData(addr, app, crc) ==
    [destination_address |-> addr, application_bytes |-> app, crc_value |-> crc]

\* crc_value of a DataLinkData built without one (None).
NoCrc == "None"

DataLinkDecode(r) ==
    IF ~(Len(r) >= DATA_LINK_BYTES_LENGTH_MIN)
    THEN [kind |-> "DataLengthUnexpectedError",
          what |-> "Data link layer message to destructure",
          actual |-> Len(r), length_expected |-> DATA_LINK_BYTES_LENGTH_MIN,
          expected_is_minimum |-> TRUE]
    ELSE IF ~verify(r, 0)
    THEN [kind |-> "CrcChecksumInvalidError"]
    ELSE Ok(DataLinkData(r[1], SubSeq(r, 2, Len(r) - 2),
                         FromBytes2(SubSeq(r, Len(r) - 1, Len(r)))))

DataLinkEncode(d) ==
    IF d.destination_address \notin Byte
    THEN [kind |-> "InvalidDestinationAddressError"]
    ELSE IF Len(d.application_bytes) < APPLICATION_BYTES_LENGTH_MIN
    THEN [kind |-> "DataLengthUnexpectedError", what |-> "Application data",
          actual |-> Len(d.application_bytes),
          length_expected |-> APPLICATION_BYTES_LENGTH_MIN,
          expected_is_minimum |-> TRUE]
    ELSE LET raw_before_crc == <<d.destination_address>> \o d.application_bytes
         IN  Ok(raw_before_crc \o ToBytes2(checksum(raw_before_crc)))

-----------------------------------------------------------------------------
(* Arbitrary-precision naturals.  A Python int n >= 0 is the big-endian    *)
(* sequence of its base-256 digits without leading zeros (0 is <<>>); the  *)
(* digits tuple of a decimal.Decimal is the same in base 10.               *)

StripLeadingZeros(s) ==
    LET nonzero == {i \in 1..Len(s) : s[i] # 0}
    IN  IF nonzero = {} THEN <<>>
        ELSE SubSeq(s, CHOOSE i \in nonzero : \A j \in nonzero : i <= j, Len(s))

StripTrailingZeros(s) ==
    LET nonzero == {i \in 1..Len(s) : s[i] # 0}
    IN  IF nonzero = {} THEN <<>>
        ELSE SubSeq(s, 1, CHOOSE i \in nonzero : \A j \in nonzero : i >= j)

Zeros(n) == [i \in 1..n |-> 0]


\* The binary digits of the Python int n.
BytesToBits(n) ==
    StripLeadingZeros([i \in 1..(8 * Len(n)) |-> Bit(n[((i - 1) \div 8) + 1], 7 - ((i - 1) % 8))])

\* The Python int with the binary digits bits.
BitsToBytes(bits) ==
    LET padded == Zeros((8 - (Len(bits) % 8)) % 8) \o bits
        at(j) == 8 * (j - 1)
    IN  StripLeadingZeros(
            [j \in 1..(Len(padded) \div 8) |->
                (128 * padded[at(j) + 1]) + (64 * padded[at(j) + 2])
                + (32 * padded[at(j) + 3]) + (16 * padded[at(j) + 4])
                + (8 * padded[at(j) + 5]) + (4 * padded[at(j) + 6])
                + (2 * padded[at(j) + 7]) + padded[at(j) + 8]])

\* Long division of the digits lo..hi of s in base b by the small number d,
\* with the remainder r carried in from the digits before lo: the quotient
\* digits and the remainder carried out.  The range is halved to keep the
\* nesting shallow.
RECURSIVE DivSmallAcc(_, _, _, _, _, _)
DivSmallAcc(s, b, d, lo, hi, r) ==
    IF lo > hi THEN [q |-> <<>>, r |-> r]
    ELSE IF lo = hi
    THEN LET cur == (r * b) + s[lo]
         IN  [q |-> <<cur \div d>>, r |-> cur % d]
    ELSE LET mid == (lo + hi) \div 2
             left == DivSmallAcc(s, b, d, lo, mid, r)
             right == DivSmallAcc(s, b, d, mid + 1, hi, left.r)
         IN  [q |-> left.q \o right.q, r |-> right.r]

DivSmall(s, b, d) == DivSmallAcc(s, b, d, 1, Len(s), 0)

\* The digits in base `to` of the number whose digits in base `from` are
\* st.n, most significant first; st.out holds the digits found so far.
\* Four digits are found per level to keep the nesting shallow.
RECURSIVE ConvertBaseAcc(_, _, _)
ConvertBaseAcc(st, from, to) ==
    IF st.n = <<>> THEN st.out
    ELSE LET dm1 == DivSmall(st.n, from, to)
             n1 == StripLeadingZeros(dm1.q)
             dm2 == DivSmall(n1, from, to)
             n2 == StripLeadingZeros(dm2.q)
             dm3 == DivSmall(n2, from, to)
             n3 == StripLeadingZeros(dm3.q)
             dm4 == DivSmall(n3, from, to)
             n4 == StripLeadingZeros(dm4.q)
         IN  IF n1 = <<>> THEN <<dm1.r>> \o st.out
             ELSE IF n2 = <<>> THEN <<dm2.r, dm1.r>> \o st.out
             ELSE IF n3 = <<>> THEN <<dm3.r, dm2.r, dm1.r>> \o st.out
             ELSE ConvertBaseAcc([n |-> n4,
                                  out |-> <<dm4.r, dm3.r, dm2.r, dm1.r>> \o st.out],
                                 from, to)

ConvertBase(s, from, to) ==
    ConvertBaseAcc([n |-> StripLeadingZeros(s), out |-> <<>>], from, to)

\* The four decimal digits of a number below 10000.
Digits4(x) == <<x \div 1000, (x \div 100) % 10, (x \div 10) % 10, x % 10>>

\* Decimal digits grouped four by four into digits in base 10000, and back.
DigitsToBase10000(ds) ==
    LET padded == Zeros((4 - (Len(ds) % 4)) % 4) \o ds
    IN  [j \in 1..(Len(padded) \div 4) |->
            (1000 * padded[(4 * j) - 3]) + (100 * padded[(4 * j) - 2])
            + (10 * padded[(4 * j) - 1]) + padded[4 * j]]

Base10000ToDigits(cs) ==
    StripLeadingZeros([i \in 1..(4 * Len(cs)) |->
                          Digits4(cs[((i - 1) \div 4) + 1])[((i - 1) % 4) + 1]])

\* The base-256 digits of a number below 2 ** 31.
SmallToBytes(x) ==
    StripLeadingZeros(<<x \div 16777216, (x \div 65536) % 256, (x \div 256) % 256, x % 256>>)

\* The digits lo..hi of le (least significant digit first) times a small m
\* (at most 2 ** 22), with the carry from the digits before lo: the digits
\* of the product at lo..hi, least significant first, and the carry out of
\* hi.  The range is halved to keep the nesting shallow.
RECURSIVE MulSmallAcc(_, _, _, _, _)
MulSmallAcc(le, m, lo, hi, carry) ==
    IF lo > hi THEN [out |-> <<>>, carry |-> carry]
    ELSE IF lo = hi
    THEN LET cur == (le[lo] * m) + carry
         IN  [out |-> <<cur % 256>>, carry |-> cur \div 256]
    ELSE LET mid == (lo + hi) \div 2
             low == MulSmallAcc(le, m, lo, mid, carry)
             high == MulSmallAcc(le, m, mid + 1, hi, low.carry)
         IN  [out |-> low.out \o high.out, carry |-> high.carry]

\* n * m for a Python int n and a small m.
MulSmall(n, m) ==
    LET len == Len(n)
        product == MulSmallAcc([i \in 1..len |-> n[len + 1 - i]], m, 1, len, 0)
    IN  StripLeadingZeros(SmallToBytes(product.carry)
                              \o [i \in 1..len |-> product.out[len + 1 - i]])

\* x + y for Python ints x and y.  The carry into a digit is 1 iff some lower
\* digit position overflows by itself and every position in between holds 255.
AddBig(x, y) ==
    LET len == (IF Len(x) > Len(y) THEN Len(x) ELSE Len(y)) + 1
        px == Zeros(len - Len(x)) \o x
        py == Zeros(len - Len(y)) \o y
        carry_in(k) ==
            IF \E j \in (k + 1)..len :
                   /\ px[j] + py[j] > 255
                   /\ \A i \in (k + 1)..(j - 1) : px[i] + py[i] = 255
            THEN 1 ELSE 0
    IN  StripLeadingZeros([k \in 1..len |-> (px[k] + py[k] + carry_in(k)) % 256])

\* x * y for Python ints x and y: one row per pair of bytes of x; st.i is the
\* number of bytes of x used so far, st.acc the product of those with y.
RECURSIVE MulBigAcc(_, _, _)
MulBigAcc(x, y, st) ==
    IF st.i = Len(x) THEN st.acc
    ELSE LET k == IF Len(x) - st.i >= 2 THEN 2 ELSE 1
             chunk == IF k = 2 THEN (256 * x[st.i + 1]) + x[st.i + 2] ELSE x[st.i + 1]
             shifted == IF st.acc = <<>> THEN <<>> ELSE st.acc \o Zeros(k)
         IN  MulBigAcc(x, y, [i |-> st.i + k, acc |-> AddBig(shifted, MulSmall(y, chunk))])

MulBig(x, y) ==
    IF Len(x) <= Len(y)
    THEN MulBigAcc(x, y, [i |-> 0, acc |-> <<>>])
    ELSE MulBigAcc(y, x, [i |-> 0, acc |-> <<>>])

\* n * 10 ** e for a Python int n, six powers of ten at a time.
RECURSIVE MulPow10(_, _)
MulPow10(n, e) ==
    IF n = <<>> \/ e = 0 THEN n
    ELSE LET k == IF e >= 6 THEN 6 ELSE e
         IN  MulPow10(MulSmall(n, 10 ^ k), e - k)

\* 10 ** e as a Python int.
Pow10(e) == MulPow10(<<1>>, e)

\* int.from_bytes(bs, "big")
from_bytes(bs) == StripLeadingZeros(bs)

\* n.bit_length()
bit_length(n) ==
    IF n = <<>> THEN 0 ELSE (8 * (Len(n) - 1)) + Len(BytesToBits(<<n[1]>>))

\* math.ceil(a / b) for naturals a, b > 0.
CeilDiv(a, b) == (a + b - 1) \div b

\* n.to_bytes(length, "big") for a Python int n that fits.
to_bytes(n, length) == Zeros(length - Len(n)) \o n

\* tuple(int(digit) for digit in str(n))
str_digits(n) ==
    IF n = <<>> THEN <<0>> ELSE Base10000ToDigits(ConvertBase(n, 256, 10000))

\* int("".join(str(digit) for digit in digits))
int_of_digits(digits) == ConvertBase(DigitsToBase10000(digits), 10000, 256)

-----------------------------------------------------------------------------
(* decimal.Decimal and float, as far as FloatCodec uses them.              *)

\* A Decimal: sign (0 or 1), digits (base 10, no leading zeros, <<0>> for
\* zero) and exponent, as in Decimal.as_tuple(); special is "n" for NaN, "F"
\* for Infinity (the value as_tuple() then gives as the exponent), else "".
Decimal(sign, digits, exponent) ==
    [sign |-> sign, digits |-> digits, exponent |-> exponent, special |-> ""]

SpecialDecimal(sign, special) ==
    [sign |-> sign, digits |-> <<0>>, exponent |-> 0, special |-> special]

\* Precision of the default decimal context, which normalize() rounds to.
DECIMAL_PREC == 28

\* s + 1 for digits s in base b; the result is one digit longer when every
\* digit of s is b - 1.
Increment(s, b) ==
    LET below == {i \in 1..Len(s) : s[i] < b - 1}
    IN  IF below = {} THEN <<1>> \o Zeros(Len(s))
        ELSE LET at == CHOOSE i \in below : \A j \in below : i >= j
             IN  [i \in 1..Len(s) |->
                     IF i < at THEN s[i] ELSE IF i = at THEN s[i] + 1 ELSE 0]

\* Decimal._fix for a finite value within the exponent range: round the
\* coefficient half-even to DECIMAL_PREC digits.
DecimalFix(d) ==
    IF Len(d.digits) <= DECIMAL_PREC THEN d
    ELSE LET kept == SubSeq(d.digits, 1, DECIMAL_PREC)
             rest == SubSeq(d.digits, DECIMAL_PREC + 1, Len(d.digits))
             tail_zero == \A i \in 2..Len(rest) : rest[i] = 0
             up == \/ rest[1] > 5
                   \/ rest[1] = 5 /\ ~tail_zero
                   \/ rest[1] = 5 /\ tail_zero /\ kept[DECIMAL_PREC] % 2 = 1
             rounded == IF up THEN Increment(kept, 10) ELSE kept
         IN  IF Len(rounded) > DECIMAL_PREC
             THEN Decimal(d.sign, SubSeq(rounded, 1, DECIMAL_PREC),
                          d.exponent + Len(rest) + 1)
             ELSE Decimal(d.sign, rounded, d.exponent + Len(rest))

\* Decimal.normalize() in the default context.
normalize(d) ==
    IF d.special # "" THEN d
    ELSE LET dup == DecimalFix(d)
             stripped == StripTrailingZeros(dup.digits)
         IN  IF stripped = <<>>
             THEN Decimal(dup.sign, <<0>>, 0)
             ELSE Decimal(dup.sign, stripped,
                          dup.exponent + (Len(dup.digits) - Len(stripped)))

\* Decimal.__eq__: numeric equality of two finite Decimals.
DecimalEq(x, y) ==
    LET zx == StripLeadingZeros(x.digits) = <<>>
        zy == StripLeadingZeros(y.digits) = <<>>
        sx == StripTrailingZeros(x.digits)
        sy == StripTrailingZeros(y.digits)
    IN  IF zx \/ zy THEN zx /\ zy
        ELSE /\ x.sign = y.sign
             /\ sx = sy
             /\ x.exponent + (Len(x.digits) - Len(sx))
                    = y.exponent + (Len(y.digits) - Len(sy))

\* Significand bits of a C double.
DBL_MANT_DIG == 53

\* The doubles that math.pow(10.0, e) can return for an integer e >= 0, each
\* given by its exact integer value: 10 ** e itself when that is a double,
\* otherwise the two doubles next to it (the C library's pow is accurate to
\* within one unit in the last place, not correctly rounded).
math_pow_10(e) ==
    LET bits == BytesToBits(Pow10(e))
        drop == Len(bits) - DBL_MANT_DIG
    IN  IF drop <= 0 \/ SubSeq(bits, DBL_MANT_DIG + 1, Len(bits)) = Zeros(drop)
        THEN {Pow10(e)}
        ELSE LET below == SubSeq(bits, 1, DBL_MANT_DIG)
             IN  {BitsToBytes(below \o Zeros(drop)),
                  BitsToBytes(Increment(below, 2) \o Zeros(drop))}

\* A Python int with its sign.
PyInt(negative, magnitude) ==
    [type |-> "int", negative |-> negative /\ magnitude # <<>>, magnitude |-> magnitude]

\* A Python float that is the product mantissa * math.pow(10, -exponent), with
\* its sign; the product is not evaluated.
PyFloatProduct(negative, mantissa, exponent) ==
    [type |-> "float", negative |-> negative, mantissa |-> mantissa,
     pow10_exponent |-> 0 - exponent]

-----------------------------------------------------------------------------
(* FloatCodec                                                              *)

_decode_parts(data) ==
    IF data = <<>>
    THEN [kind |-> "DataLengthUnexpectedError",
          what |-> "Data for floating point decoding", actual |-> 0]
    ELSE LET integer_length == data[1]
             length_expected == integer_length + 2
         IN  IF integer_length = 0
             THEN [kind |-> "OutOfRangeError",
                   what |-> "Integer length byte value for floating point data decoding",
                   valid_range |-> <<(<<1>>), (<<>>)>>, actual |-> 0]
             ELSE IF Len(data) # length_expected
             THEN [kind |-> "DataLengthUnexpectedError", what |-> "Floating point data",
                   actual |-> Len(data), length_expected |-> length_expected,
                   expected_is_minimum |-> FALSE]
             ELSE LET sign_exp_byte == data[2]
                  IN  Ok([negative |-> Bit(sign_exp_byte, 7) = 1,
                          exponent_negative |-> Bit(sign_exp_byte, 6) = 1,
                          exponent |-> sign_exp_byte % 64,
                          mantissa |-> from_bytes(Slice(data, 2, integer_length + 2))])

FloatDecode(data) ==
    LET parts == _decode_parts(data)
    IN  IF parts.kind # "ok" THEN parts
        ELSE LET p == parts.val
                 mantissa_digits == str_digits(p.mantissa)
                 exponent == IF p.exponent_negative THEN 0 - p.exponent ELSE p.exponent
             IN  Ok(Decimal(IF p.negative THEN 1 ELSE 0, mantissa_digits, exponent))

DBL_MAX_EXP == 1024

\* The conversion of the Python int n to float, which int * float performs,
\* raises OverflowError: n rounded to DBL_MANT_DIG bits is 2 ** DBL_MAX_EXP
\* or more.
int_to_float_overflows(n) ==
    LET bits == BytesToBits(n)
    IN  \/ Len(bits) > DBL_MAX_EXP
        \/ /\ Len(bits) = DBL_MAX_EXP
           /\ \A i \in 1..(DBL_MANT_DIG + 1) : bits[i] = 1

\* The set of outcomes of decode_int_or_float: one per value math.pow can
\* return.
FloatDecodeIntOrFloat(data) ==
    LET parts == _decode_parts(data)
    IN  IF parts.kind # "ok" THEN {parts}
        ELSE LET p == parts.val
             IN  IF ~p.exponent_negative
                 THEN {Ok(PyInt(p.negative, MulBig(p.mantissa, pw))) :
                          pw \in math_pow_10(p.exponent)}
                 ELSE IF int_to_float_overflows(p.mantissa)
                 THEN {[kind |-> "OverflowError"]}
                 ELSE {Ok(PyFloatProduct(p.negative, p.mantissa, p.exponent))}

\* A variant in which the exponent's sign bit is left out.
sign_exp_byte_without_exponent_sign(negative, exponent_negative, _exponent) ==
    (IF negative THEN 128 ELSE 0) + (_exponent % 64)

\* sign_bit | exponent_sign_bit | exponent_bits
sign_exp_byte(negative, exponent_negative, _exponent) ==
    (IF negative THEN 128 ELSE 0) + (IF exponent_negative THEN 64 ELSE 0)
        + (_exponent % 64)

\* num_bytes (significand_num_bytes) is <<>> for None and <<n>> for the int n.
FloatEncode(value, num_bytes) ==
    LET decimal_tuple == normalize(value)
        negative == decimal_tuple.sign = 1
        digits == decimal_tuple.digits
        exponent == decimal_tuple.exponent
    IN  IF decimal_tuple.special # ""
        THEN [kind |-> "UnsupportedDecimalExponentError",
              actual_exponent |-> decimal_tuple.special]
        ELSE
        LET mantissa == int_of_digits(digits)
            mantissa_bytes_length_needed == CeilDiv(bit_length(mantissa), 8)
            too_long == /\ num_bytes # <<>>
                        /\ mantissa_bytes_length_needed > num_bytes[1]
            mantissa_bytes_length ==
                IF num_bytes # <<>> THEN num_bytes[1]
                ELSE mantissa_bytes_length_needed
            exponent_negative == exponent < 0
            _exponent == IF exponent < 0 THEN 0 - exponent ELSE exponent
            max_value_six_bits == 63
        IN  IF too_long
            THEN [kind |-> "OutOfRangeError",
                  what |-> "Significand bytes length of decimal to encode as mantissa",
                  valid_range |-> <<num_bytes, num_bytes>>,
                  actual |-> mantissa_bytes_length_needed]
            ELSE IF _exponent > max_value_six_bits
            THEN [kind |-> "OutOfRangeError", what |-> "Exponent to encode",
                  valid_range |-> <<(<<>>), (<<max_value_six_bits>>)>>,
                  actual |-> _exponent]
            ELSE IF mantissa_bytes_length \notin Byte
            THEN [kind |-> "OverflowError"]
            ELSE Ok(<<mantissa_bytes_length>>
                    \o <<sign_exp_byte(negative, exponent_negative, _exponent)>>
                    \o to_bytes(mantissa, mantissa_bytes_length))

-----------------------------------------------------------------------------
(* ApplicationCodec                                                        *)

APPLICATION_CODEC_BYTES_LENGTH_MIN == 1

ApplicationData(command_id, data) == [command_id |-> command_id, data |-> data]

\* ApplicationCodec.decode
ApplicationDecode(data) ==
    IF ~(Len(data) >= APPLICATION_CODEC_BYTES_LENGTH_MIN)
    THEN [kind |-> "DataLengthUnexpectedError",
          what |-> "Application data message to destructure",
          length_expected |-> APPLICATION_CODEC_BYTES_LENGTH_MIN,
          expected_is_minimum |-> TRUE, actual |-> Len(data)]
    ELSE Ok(ApplicationData(data[1], SliceFrom(data, 1)))

\* A variant that keeps the low byte of a command ID that does not fit.
ApplicationEncode_truncating(d) == Ok(<<d.command_id % 256>> \o d.data)

\* ApplicationCodec.encode: command_id.to_bytes(1, "big") raises
\* OverflowError for a negative int and for one above 255.
ApplicationEncode(d) ==
    IF d.command_id \notin Byte
    THEN [kind |-> "OutOfRangeError", what |-> "Command ID",
          valid_range |-> <<0, 255>>, actual |-> d.command_id]
    ELSE Ok(<<d.command_id>> \o d.data)

-----------------------------------------------------------------------------
(* GetRegisterResponse (messages.py).  The dict `registers` is a sequence  *)
(* of RegisterData in insertion order with pairwise distinct IDs.  Of the  *)
(* log records only the warnings are kept; debug records are left out.     *)

GET_REGISTER == 16

RegisterData(id_, unit, value) == [id_ |-> id_, unit |-> unit, value |-> value]

REGISTER_ID_LENGTH_ENCODED == 2
REGISTER_UNIT_LENGTH_ENCODED == 1
REGISTER_VALUE_LENGTH_LENGTH_ENCODED == 1
REGISTER_VALUE_FORMAT_LENGTH_ENCODED == 1

\* HasCommandIdAndName._decode_validate_command_id for GetRegisterResponse.
_decode_validate_command_id(command_id) ==
    IF command_id # GET_REGISTER
    THEN [kind |-> "MessageCidMismatchError", actual |-> command_id,
          cid_expected |-> GET_REGISTER,
          message_class_name |-> "GetRegisterResponse"]
    ELSE Ok("None")

\* len_min of GetRegisterResponse._decode_one_register_value.
len_min ==
    REGISTER_ID_LENGTH_ENCODED + REGISTER_UNIT_LENGTH_ENCODED
    + REGISTER_VALUE_LENGTH_LENGTH_ENCODED + REGISTER_VALUE_FORMAT_LENGTH_ENCODED + 1

\* A variant in which the length byte is taken to count the sign/exponent
\* byte too.
value_length_without_format_byte(bs) == bs[4]

\* value_length in _decode_one_register_value: the length byte excludes the
\* sign/exponent byte.
value_length(bs) == bs[4] + REGISTER_VALUE_FORMAT_LENGTH_ENCODED

\* A variant that keeps the first record seen for an ID.
update_keep_first(regs, register_data) ==
    IF \E i \in 1..Len(regs) : regs[i].id_ = register_data.id_
    THEN regs
    ELSE Append(regs, register_data)

\* dict.update({register_data.id_: register_data}): an existing key keeps its
\* position and gets the new value, a new key goes to the end.
update(regs, register_data) ==
    IF \E i \in 1..Len(regs) : regs[i].id_ = register_data.id_
    THEN [i \in 1..Len(regs) |->
             IF regs[i].id_ = register_data.id_ THEN register_data ELSE regs[i]]
    ELSE Append(regs, register_data)

\* A variant of the loop condition that stops at leftover bytes shorter than
\* a record.
while_record_fits(bs) == Len(bs) >= len_min

\* The loop condition of GetRegisterResponse.decode: `while bytes_remaining`.
while_bytes_remaining(bs) == bs # <<>>

\* GetRegisterResponse._decode_one_register_value: the outcome holds the
\* RegisterData, the remaining bytes and the warnings logged.
_decode_one_register_value(bs) ==
    LET len_raw == Len(bs)
    IN  IF len_raw < len_min
        THEN [kind |-> "DataLengthUnexpectedError",
              what |-> "Data to decode register data",
              length_expected |-> len_min, expected_is_minimum |-> TRUE,
              actual |-> len_raw]
        ELSE LET expected_len_min == 4 + value_length(bs)
             IN  IF ~(len_raw >= expected_len_min)
                 THEN [kind |-> "DataLengthUnexpectedError",
                       what |-> "Register value data left in buffer",
                       length_expected |-> expected_len_min,
                       expected_is_minimum |-> TRUE, actual |-> len_raw]
                 ELSE LET data ==
                              RegisterData(
                                  FromBytes2(Slice(bs, 0, 2)), bs[3],
                                  Slice(bs, 3, 3 + value_length(bs)
                                               + REGISTER_VALUE_LENGTH_LENGTH_ENCODED))
                          remaining_bytes == SliceFrom(bs, 4 + value_length(bs))
                          len_remaining == Len(remaining_bytes)
                      IN  [kind |-> "ok", data |-> data,
                           remaining |-> remaining_bytes,
                           warnings |->
                               IF 0 < len_remaining /\ len_remaining < len_min
                               THEN <<[msg |-> "Remaining data after decoding register value is unexpectedly short.",
                                       len |-> len_remaining, min |-> len_min]>>
                               ELSE <<>>]

\* GetRegisterResponse._encode_one_register_value.
_encode_one_register_value(data) ==
    ToBytes2(data.id_) \o <<data.unit>> \o data.value

-----------------------------------------------------------------------------
(* Requests and responses of messages.py other than GetRegisterResponse.   *)
(* A str is the sequence of its code points; None is <<>> and a value v    *)
(* that may be None is <<v>>.  A message instance is a record with the     *)
(* name of its class in the field class.                                   *)

GET_TYPE == 1
GET_SERIAL == 2

\* The class attribute command_id.
class_command_id(cls) ==
    CASE cls \in {"GetTypeRequest", "GetTypeResponse"} -> GET_TYPE
      [] cls \in {"GetSerialRequest", "GetSerialResponse"} -> GET_SERIAL
      [] cls \in {"GetRegisterRequest", "GetRegisterResponse"} -> GET_REGISTER

\* HasCommandIdAndName._decode_validate_command_id of the class cls.
decode_validate_command_id(cls, command_id) ==
    IF command_id # class_command_id(cls)
    THEN [kind |-> "MessageCidMismatchError", actual |-> command_id,
          cid_expected |-> class_command_id(cls),
          message_class_name |-> cls]
    ELSE Ok("None")

\* A variant of WithoutDataMixin.decode that looks at the data first.
WithoutDataDecode_data_first(cls, data) ==
    IF data.data # <<>>
    THEN [kind |-> "DataWithNoDataError", message_class |-> cls]
    ELSE LET validated == decode_validate_command_id(cls, data.command_id)
         IN  IF validated.kind # "ok" THEN validated ELSE Ok([class |-> cls])

\* WithoutDataMixin.decode
WithoutDataDecode(cls, data) ==
    LET validated == decode_validate_command_id(cls, data.command_id)
    IN  IF validated.kind # "ok" THEN validated
        ELSE IF data.data # <<>>
        THEN [kind |-> "DataWithNoDataError", message_class |-> cls]
        ELSE Ok([class |-> cls])

\* WithoutDataMixin.encode
WithoutDataEncode(self) == Ok(ApplicationData(class_command_id(self.class), <<>>))

\* [0-9] in a pattern compiled for str.
IsDigit(c) == c \in 48..57

\* str(n) of a Python int n >= 0.
str_int(n) == LET d == str_digits(n) IN [i \in 1..Len(d) |-> 48 + d[i]]

\* int(t) for a str t of at most three characters in [0-9].
RECURSIVE int_of_number(_)
int_of_number(t) ==
    IF t = <<>> THEN 0
    ELSE (10 * int_of_number(SubSeq(t, 1, Len(t) - 1))) + (t[Len(t)] - 48)

\* ZERO_TO_255_RE matching the whole of t.
ZERO_TO_255_RE(t) ==
    \/ /\ Len(t) \in 1..2
       /\ \A i \in 1..Len(t) : IsDigit(t[i])
    \/ /\ Len(t) = 3
       /\ t[1] = 49
       /\ IsDigit(t[2])
       /\ IsDigit(t[3])
    \/ /\ Len(t) = 3
       /\ t[1] = 50
       /\ t[2] \in 48..52
       /\ IsDigit(t[3])
    \/ /\ Len(t) = 3
       /\ t[1] = 50
       /\ t[2] = 53
       /\ t[3] \in 48..53

METER_TYPE_LENGTH_ENCODED == 2
SOFTWARE_REVISION_LENGTH_ENCODED == 2
SOFTWARE_REVISION_LETTER_INT_MIN == 1
SOFTWARE_REVISION_LETTER_INT_MAX == 26
SOFTWARE_REVISION_UNAVAILABLE_BYTES == <<0, 0>>

\* The positions at which the $ of a pattern without re.MULTILINE matches in
\* s, counted as the number of characters before it: the end of the string,
\* and just before a newline that is the last character.
DollarPositions(s) ==
    {Len(s)} \cup (IF s # <<>> /\ s[Len(s)] = 10 THEN {Len(s) - 1} ELSE {})

\* SOFTWARE_REVISION_STR_RE.match(s): None, or the groups letter and number.
SOFTWARE_REVISION_STR_RE_match(s) ==
    LET ends == {e \in DollarPositions(s) :
                    /\ e >= 2
                    /\ s[1] \in 65..90
                    /\ ZERO_TO_255_RE(SubSeq(s, 2, e))}
    IN  IF ends = {} THEN <<>>
        ELSE LET e == CHOOSE e \in ends : TRUE
             IN  <<[letter |-> s[1], number |-> SubSeq(s, 2, e)]>>

\* The attrs-generated __init__ of GetTypeResponse; it has no validator.
GetTypeResponse(meter_type_bytes, software_revision, data_raw) ==
    [class |-> "GetTypeResponse", meter_type_bytes |-> meter_type_bytes,
     software_revision |-> software_revision, data_raw |-> data_raw]

\* A variant that maps the letter ints to the lowercase letters.
sw_rev_letter_lowercase(sw_rev_letter_int) == sw_rev_letter_int + 96

\* chr(sw_rev_letter_int + 64)
sw_rev_letter(sw_rev_letter_int) == sw_rev_letter_int + 64

\* GetTypeResponse.decode
GetTypeResponseDecode(data) ==
    LET validated == decode_validate_command_id("GetTypeResponse", data.command_id)
        length_expected == METER_TYPE_LENGTH_ENCODED + SOFTWARE_REVISION_LENGTH_ENCODED
        data_len == Len(data.data)
        meter_type_bytes == Slice(data.data, 0, 2)
        sw_rev_bytes == SliceFrom(data.data, 2)
        sw_rev_letter_int == sw_rev_bytes[1]
        sw_rev_number == sw_rev_bytes[2]
    IN  IF validated.kind # "ok" THEN validated
        ELSE IF data_len # length_expected
        THEN [kind |-> "DataLengthUnexpectedError",
              what |-> "GetType response data",
              length_expected |-> length_expected,
              expected_is_minimum |-> FALSE, actual |-> data_len]
        ELSE IF sw_rev_bytes = SOFTWARE_REVISION_UNAVAILABLE_BYTES
        THEN Ok(GetTypeResponse(meter_type_bytes, <<>>, <<data.data>>))
        ELSE IF ~(/\ SOFTWARE_REVISION_LETTER_INT_MIN <= sw_rev_letter_int
                  /\ sw_rev_letter_int <= SOFTWARE_REVISION_LETTER_INT_MAX)
        THEN [kind |-> "OutOfRangeError",
              what |-> "Software revision letter (int value)",
              valid_range |-> <<SOFTWARE_REVISION_LETTER_INT_MIN,
                                SOFTWARE_REVISION_LETTER_INT_MAX>>,
              actual |-> sw_rev_letter_int]
        ELSE Ok(GetTypeResponse(
                    meter_type_bytes,
                    <<<<sw_rev_letter(sw_rev_letter_int)>>
                        \o str_int(StripLeadingZeros(<<sw_rev_number>>))>>,
                    <<data.data>>))

\* GetTypeResponse.encode
GetTypeResponseEncode(self) ==
    IF Len(self.meter_type_bytes) # METER_TYPE_LENGTH_ENCODED
    THEN [kind |-> "DataLengthUnexpectedError",
          what |-> "GetTypeResponse meter type bytes",
          length_expected |-> METER_TYPE_LENGTH_ENCODED,
          expected_is_minimum |-> FALSE,
          actual |-> Len(self.meter_type_bytes)]
    ELSE IF self.software_revision = <<>>
    THEN Ok(ApplicationData(GET_TYPE,
                            self.meter_type_bytes \o SOFTWARE_REVISION_UNAVAILABLE_BYTES))
    ELSE LET matches == SOFTWARE_REVISION_STR_RE_match(self.software_revision[1])
         IN  IF matches = <<>>
             THEN [kind |-> "SoftwareRevisionInvalidError",
                   revision_string |-> self.software_revision[1]]
             ELSE Ok(ApplicationData(
                        GET_TYPE,
                        self.meter_type_bytes
                            \o <<matches[1].letter - 64,
                                 int_of_number(matches[1].number)>>))

SERIAL_LENGTH_ENCODED == 4

\* (2 ** (SERIAL_LENGTH_ENCODED * 8)) - 1 as a Python int.
SERIAL_VALUE_MAX == [i \in 1..SERIAL_LENGTH_ENCODED |-> 255]

\* The characters that int() strips from both ends of a str.
IsSpace(c) == c \in (9..13) \cup (28..32)

\* s.strip()
strip(s) ==
    LET kept == {i \in 1..Len(s) : ~IsSpace(s[i])}
    IN  IF kept = {} THEN <<>>
        ELSE SubSeq(s, CHOOSE i \in kept : \A j \in kept : i <= j,
                       CHOOSE i \in kept : \A j \in kept : i >= j)

\* int(value) for a str: surrounding whitespace, a sign, and single
\* underscores between digits are accepted.
int_of_str(value) ==
    LET stripped == strip(value)
        signed == stripped # <<>> /\ stripped[1] \in {43, 45}
        body == IF signed THEN Tail(stripped) ELSE stripped
        valid ==
            /\ body # <<>>
            /\ \A i \in 1..Len(body) :
                  \/ IsDigit(body[i])
                  \/ /\ body[i] = 95
                     /\ 1 < i
                     /\ i < Len(body)
                     /\ IsDigit(body[i - 1])
                     /\ IsDigit(body[i + 1])
        digits == SelectSeq(body, IsDigit)
    IN  IF ~valid THEN [kind |-> "ValueError"]
        ELSE Ok(PyInt(signed /\ stripped[1] = 45,
                      int_of_digits([i \in 1..Len(digits) |-> digits[i] - 48])))

\* x <= y for Python ints x, y >= 0.
RECURSIVE IntLeq(_, _)
IntLeq(x, y) ==
    IF Len(x) # Len(y) THEN Len(x) < Len(y)
    ELSE IF x = <<>> THEN TRUE
    ELSE IF Head(x) # Head(y) THEN Head(x) < Head(y)
    ELSE IntLeq(Tail(x), Tail(y))

\* GetSerialResponse.digits_only_validator
digits_only_validator(value) ==
    LET int_value == int_of_str(value)
    IN  IF int_value.kind = "ValueError"
        THEN [kind |-> "SerialNumberInvalidError", serial |-> value]
        ELSE IF ~(/\ ~int_value.val.negative
                  /\ IntLeq(int_value.val.magnitude, SERIAL_VALUE_MAX))
        THEN [kind |-> "OutOfRangeError", what |-> "Serial number",
              valid_range |-> <<<<>>, SERIAL_VALUE_MAX>>,
              actual |-> int_value.val]
        ELSE Ok("None")

\* The attrs-generated __init__ of GetSerialResponse, which runs the
\* validator of serial.
GetSerialResponse(serial, data_raw) ==
    LET validated == digits_only_validator(serial)
    IN  IF validated.kind # "ok" THEN validated
        ELSE Ok([class |-> "GetSerialResponse", serial |-> serial,
                 data_raw |-> data_raw])

\* GetSerialResponse.decode
GetSerialResponseDecode(data) ==
    LET validated == decode_validate_command_id("GetSerialResponse", data.command_id)
    IN  IF validated.kind # "ok" THEN validated
        ELSE IF Len(data.data) # SERIAL_LENGTH_ENCODED
        THEN [kind |-> "DataLengthUnexpectedError", what |-> "Serial data",
              length_expected |-> SERIAL_LENGTH_ENCODED,
              expected_is_minimum |-> FALSE, actual |-> Len(data.data)]
        ELSE GetSerialResponse(str_int(from_bytes(data.data)), <<data.data>>)

\* GetSerialResponse.encode
GetSerialResponseEncode(self) ==
    Ok(ApplicationData(
        GET_SERIAL,
        to_bytes(int_of_str(self.serial).val.magnitude, SERIAL_LENGTH_ENCODED)))

NUM_REGISTERS_LENGTH_ENCODED == 1
NUM_REGISTERS_MAX == 8
REQUEST_REGISTER_ID_LENGTH_ENCODED == 2
REGISTER_ID_VALUE_MAX == (2 ^ (REQUEST_REGISTER_ID_LENGTH_ENCODED * 8)) - 1

\* GetRegisterRequest.register_id_validator: the first ID out of range
\* raises.
register_id_validator(value) ==
    LET bad == {i \in 1..Len(value) :
                    ~(0 <= value[i] /\ value[i] <= REGISTER_ID_VALUE_MAX)}
    IN  IF bad = {} THEN Ok("None")
        ELSE [kind |-> "OutOfRangeError", what |-> "Register ID",
              valid_range |-> <<0, REGISTER_ID_VALUE_MAX>>,
              actual |-> value[CHOOSE i \in bad : \A j \in bad : i <= j]]

\* The attrs-generated __init__ of GetRegisterRequest, which runs the
\* validator of registers.
GetRegisterRequest(regs, data_raw) ==
    LET validated == register_id_validator(regs)
    IN  IF validated.kind # "ok" THEN validated
        ELSE Ok([class |-> "GetRegisterRequest", registers |-> regs,
                 data_raw |-> data_raw])

\* GetRegisterRequest._decode_register_ids_array
_decode_register_ids_array(num_registers, packed) ==
    LET expected_length == num_registers * REQUEST_REGISTER_ID_LENGTH_ENCODED
        packed_len == Len(packed)
    IN  IF packed_len # expected_length
        THEN [kind |-> "DataLengthUnexpectedError",
              what |-> "GetRegister request data for register ID(s)",
              num_registers |-> num_registers,
              length_expected |-> expected_length,
              expected_is_minimum |-> FALSE, actual |-> packed_len]
        ELSE Ok([i \in 1..(packed_len \div REQUEST_REGISTER_ID_LENGTH_ENCODED) |->
                    FromBytes2(SubSeq(packed,
                                      (REQUEST_REGISTER_ID_LENGTH_ENCODED * (i - 1)) + 1,
                                      REQUEST_REGISTER_ID_LENGTH_ENCODED * i))])

\* A variant that warns only about more registers than the maximum.
num_registers_in_range_or_zero(num_registers) == num_registers <= NUM_REGISTERS_MAX

\* 1 <= num_registers <= NUM_REGISTERS_MAX
num_registers_in_range(num_registers) ==
    1 <= num_registers /\ num_registers <= NUM_REGISTERS_MAX

\* The warnings that GetRegisterRequest.decode logs.
GetRegisterRequestDecodeWarnings(data) ==
    IF /\ decode_validate_command_id("GetRegisterRequest", data.command_id).kind = "ok"
       /\ Len(data.data) >= NUM_REGISTERS_LENGTH_ENCODED
       /\ ~num_registers_in_range(data.data[1])
    THEN <<[what |-> "Number of registers outside the defined range",
            num_registers |-> data.data[1]]>>
    ELSE <<>>

\* GetRegisterRequest.decode
GetRegisterRequestDecode(data) ==
    LET validated == decode_validate_command_id("GetRegisterRequest", data.command_id)
        min_length == NUM_REGISTERS_LENGTH_ENCODED
        data_len == Len(data.data)
        num_registers == data.data[1]
        registers_bytes == SliceFrom(data.data, 1)
        regs == _decode_register_ids_array(num_registers, registers_bytes)
    IN  IF validated.kind # "ok" THEN validated
        ELSE IF data_len < min_length
        THEN [kind |-> "DataLengthUnexpectedError",
              what |-> "GetRegister request data",
              length_expected |-> min_length,
              expected_is_minimum |-> TRUE, actual |-> data_len]
        ELSE IF regs.kind # "ok" THEN regs
        ELSE GetRegisterRequest(regs.val, <<data.data>>)

\* GetRegisterRequest.encode
GetRegisterRequestEncode(self) ==
    LET num_registers == Len(self.registers)
    IN  IF ~num_registers_in_range(num_registers)
        THEN [kind |-> "OutOfRangeError",
              what |-> "Number of registers requested in GetRegister request",
              valid_range |-> <<1, NUM_REGISTERS_MAX>>,
              actual |-> num_registers]
        ELSE Ok(ApplicationData(
                GET_REGISTER,
                <<num_registers>>
                    \o [i \in 1..(REQUEST_REGISTER_ID_LENGTH_ENCODED * num_registers) |->
                           ToBytes2(self.registers[
                               ((i - 1) \div REQUEST_REGISTER_ID_LENGTH_ENCODED) + 1])[
                               ((i - 1) % REQUEST_REGISTER_ID_LENGTH_ENCODED) + 1]]))

-----------------------------------------------------------------------------
(* ClientCodec and ClientCommunicator (client.py).  A ClientCodec is the   *)
(* record of its attribute destination_address: the codecs it holds have   *)
(* no state.  A request object is a record with the field class.           *)
DESTINATION_ADDRESS_DEFAULT == 63

ClientCodec(destination_address) == [destination_address |-> destination_address]

EncodedClientRequest(physical_bytes, request_cls) ==
    [physical_bytes |-> physical_bytes, request_cls |-> request_cls]

EncodedClientResponse(physical_bytes, request_cls) ==
    [physical_bytes |-> physical_bytes, request_cls |-> request_cls]

\* request.encode() of the three request classes.
RequestEncode(request) ==
    IF request.class = "GetRegisterRequest"
    THEN GetRegisterRequestEncode(request)
    ELSE WithoutDataEncode(request)

\* The loop of GetRegisterResponse.decode, run to its end.
RECURSIVE GetRegisterResponseDecodeLoop(_, _)
GetRegisterResponseDecodeLoop(bs, regs) ==
    IF ~while_bytes_remaining(bs) THEN Ok(regs)
    ELSE LET one == _decode_one_register_value(bs)
         IN  IF one.kind # "ok" THEN one
             ELSE GetRegisterResponseDecodeLoop(one.remaining, update(regs, one.data))

\* GetRegisterResponse.decode as one call (its warnings are left out).
GetRegisterResponseDecode(data) ==
    LET validated == _decode_validate_command_id(data.command_id)
        looped == GetRegisterResponseDecodeLoop(data.data, <<>>)
    IN  IF validated.kind # "ok" THEN validated
        ELSE IF looped.kind # "ok" THEN looped
        ELSE Ok([registers |-> looped.val, data_raw |-> data.data])

\* request_cls.get_response_type().decode(application_data)
ResponseDecode(request_cls, application_data) ==
    CASE request_cls = "GetTypeRequest" -> GetTypeResponseDecode(application_data)
      [] request_cls = "GetSerialRequest" -> GetSerialResponseDecode(application_data)
      [] request_cls = "GetRegisterRequest" -> GetRegisterResponseDecode(application_data)

\* ClientCodec.encode
ClientEncode(self, request) ==
    LET application_data == RequestEncode(request)
        application_bytes == ApplicationEncode(application_data.val)
        data_link_data == DataLinkData(self.destination_address,
                                       application_bytes.val, NoCrc)
        data_link_bytes == DataLinkEncode(data_link_data)
        thebytes == PhysicalEncode("TO_METER", data_link_bytes.val)
    IN  IF application_data.kind # "ok" THEN application_data
        ELSE IF application_bytes.kind # "ok" THEN application_bytes
        ELSE IF data_link_bytes.kind # "ok" THEN data_link_bytes
        ELSE IF thebytes.kind # "ok" THEN thebytes
        ELSE Ok(EncodedClientRequest(thebytes.val, request.class))

\* ClientCodec.decode after the physical layer: the data-link and the
\* application layer, then the response class of the request class.
ClientDecodeDataLinkBytes(data_link_bytes, request_cls) ==
    LET data_link_data == DataLinkDecode(data_link_bytes)
        application_data == ApplicationDecode(data_link_data.val.application_bytes)
    IN  IF data_link_data.kind # "ok" THEN data_link_data
        ELSE IF application_data.kind # "ok" THEN application_data
        ELSE ResponseDecode(request_cls, application_data.val)

\* A variant that lets the AckReceivedException of the physical layer pass.
ClientDecode_without_ack_handler(self, frame_) ==
    LET data_link_bytes == PhysicalDecode("FROM_METER", frame_.physical_bytes)
    IN  IF data_link_bytes.kind # "ok" THEN data_link_bytes
        ELSE ClientDecodeDataLinkBytes(data_link_bytes.val, frame_.request_cls)

\* A variant that refuses a frame for another destination address.
ClientDecode_checking_address(self, frame_) ==
    LET data_link_bytes == PhysicalDecode("FROM_METER", frame_.physical_bytes)
        data_link_data == DataLinkDecode(data_link_bytes.val)
    IN  IF data_link_bytes.kind = "AckReceivedException"
        THEN [kind |-> "NotImplementedError", cause |-> data_link_bytes.kind]
        ELSE IF data_link_bytes.kind # "ok" THEN data_link_bytes
        ELSE IF /\ data_link_data.kind = "ok"
                /\ data_link_data.val.destination_address # self.destination_address
        THEN [kind |-> "InvalidDestinationAddressError"]
        ELSE ClientDecodeDataLinkBytes(data_link_bytes.val, frame_.request_cls)

\* ClientCodec.decode: `raise NotImplementedError from exc` for the
\* physical layer's AckReceivedException.
ClientDecode(self, frame_) ==
    LET data_link_bytes == PhysicalDecode("FROM_METER", frame_.physical_bytes)
    IN  IF data_link_bytes.kind = "AckReceivedException"
        THEN [kind |-> "NotImplementedError", cause |-> data_link_bytes.kind]
        ELSE IF data_link_bytes.kind # "ok" THEN data_link_bytes
        ELSE ClientDecodeDataLinkBytes(data_link_bytes.val, frame_.request_cls)

\* PySerialClientCommunicator.read_until_stop: one byte is read at a time
\* until a read times out (no byte is left of `incoming`) or the byte read
\* is the stop byte.
read_until_stop(incoming) ==
    LET stops == {i \in 1..Len(incoming) : incoming[i] = STOP}
    IN  IF stops = {} THEN incoming
        ELSE SubSeq(incoming, 1, CHOOSE i \in stops : \A j \in stops : i <= j)

\* A variant of read that returns the empty bytes of a timeout.
read_without_timeout_error(incoming) == Ok(read_until_stop(incoming))

\* PySerialClientCommunicator.read with num_bytes=None
read(incoming) ==
    LET return_bytes == read_until_stop(incoming)
    IN  IF return_bytes = <<>> THEN [kind |-> "TimeoutError"]
        ELSE Ok(return_bytes)

-----------------------------------------------------------------------------
(* Components that a specification does not exercise stay idle.            *)

PhysIdle ==
    /\ direction = "TO_METER"
    /\ data_bytes = <<>>
    /\ frame = <<>>
    /\ phys_encoded = NoResult
    /\ phys_decoded = NoResult
    /\ phys_ack = NoResult

DataLinkIdle ==
    /\ dl_data = DataLinkData(0, <<>>, NoCrc)
    /\ raw = <<>>
    /\ dl_encoded = NoResult
    /\ dl_decoded = NoResult

FloatIdle ==
    /\ fl_data = <<>>
    /\ fl_decoded = NoResult
    /\ fl_int_or_float = NoResult
    /\ to_encode = Decimal(0, <<0>>, 0)
    /\ significand_num_bytes = <<>>
    /\ fl_encoded = NoResult
    /\ fl_redecoded = NoResult

RegIdle ==
    /\ reg_records = <<>>
    /\ reg_app_data = ApplicationData(GET_REGISTER, <<>>)
    /\ bytes_remaining = <<>>
    /\ registers = <<>>
    /\ reg_warnings = <<>>
    /\ reg_decoded = NoResult
    /\ reg_encoded = NoResult
    /\ reg_iterations = 0

AppIdle ==
    /\ app_to_encode = ApplicationData(0, <<>>)
    /\ app_bytes = <<>>
    /\ app_encoded = NoResult
    /\ app_decoded = NoResult

MsgIdle ==
    /\ msg_class = "None"
    /\ msg_args = <<>>
    /\ msg_app_data = ApplicationData(0, <<>>)
    /\ msg_object = NoResult
    /\ msg_warnings = <<>>
    /\ msg_encoded = NoResult

ClientIdle ==
    /\ cl_destination_address = DESTINATION_ADDRESS_DEFAULT
    /\ cl_message = [class |-> "GetTypeRequest"]
    /\ cl_incoming = <<>>
    /\ cl_encoded = NoResult
    /\ cl_io = <<>>
    /\ cl_received = NoResult
    /\ cl_result = NoResult

-----------------------------------------------------------------------------
(* SpecPhysical: PhysicalCodec.encode followed by PhysicalCodec.decode of  *)
(* the frame it returned.                                                  *)

MaxPhysLen == 3

\* The five special bytes, the second byte of each escape sequence, and an
\* ordinary byte.
PhysByteSet ==
    {STUFFING, ACK, START_FROM_METER, START_TO_METER, STOP}
        \cup {228, 249, 191, 127, 242} \cup {0}

PhysInputs == SeqsBetween(PhysByteSet, 0, MaxPhysLen)

\* Either data-link bytes are to be sent, or a frame has been received.
PhysInit ==
    /\ direction \in PhysicalDirection
    /\ \/ /\ pc = "phys_start"
          /\ data_bytes \in PhysInputs
          /\ frame = <<>>
       \/ /\ pc = "phys_received"
          /\ data_bytes = <<>>
          /\ frame \in PhysInputs
    /\ phys_encoded = NoResult
    /\ phys_decoded = NoResult
    /\ phys_ack = NoResult
    /\ DataLinkIdle
    /\ FloatIdle
    /\ RegIdle
    /\ AppIdle
    /\ MsgIdle
    /\ ClientIdle

PhysEncodeStep ==
    /\ pc = "phys_start"
    /\ phys_encoded' = PhysicalEncode(direction, data_bytes)
    /\ pc' = "phys_encoded"
    /\ UNCHANGED <<direction, data_bytes, frame, phys_decoded, phys_ack>>
    /\ UNCHANGED <<dlVars, floatVars, regVars, appVars, msgVars, clientVars>>

\* The frame returned by encode is handed to decode.
PhysDecodeStep ==
    /\ pc = "phys_encoded"
    /\ phys_encoded.kind = "ok"
    /\ frame' = phys_encoded.val
    /\ phys_decoded' = PhysicalDecode(direction, frame')
    /\ pc' = "phys_done"
    /\ UNCHANGED <<direction, data_bytes, phys_encoded, phys_ack>>
    /\ UNCHANGED <<dlVars, floatVars, regVars, appVars, msgVars, clientVars>>

\* The received frame is handed to decode.
PhysDecodeReceivedStep ==
    /\ pc = "phys_received"
    /\ phys_decoded' = PhysicalDecode(direction, frame)
    /\ pc' = "phys_received_done"
    /\ UNCHANGED <<direction, data_bytes, frame, phys_encoded, phys_ack>>
    /\ UNCHANGED <<dlVars, floatVars, regVars, appVars, msgVars, clientVars>>

\* An acknowledgement is encoded after a frame was received.
PhysEncodeAckStep ==
    /\ pc = "phys_received_done"
    /\ phys_ack' = Ok(PhysicalEncodeAck)
    /\ pc' = "phys_acked"
    /\ UNCHANGED <<direction, data_bytes, frame, phys_encoded, phys_decoded>>
    /\ UNCHANGED <<dlVars, floatVars, regVars, appVars, msgVars, clientVars>>

PhysNext ==
    \/ PhysEncodeStep
    \/ PhysDecodeStep
    \/ PhysDecodeReceivedStep
    \/ PhysEncodeAckStep

SpecPhysical == PhysInit /\ [][PhysNext]_vars

-----------------------------------------------------------------------------
(* SpecDataLink: DataLinkCodec.encode followed by decode of its result,    *)
(* and DataLinkCodec.decode of received byte strings.                      *)

MaxAppLen == 2
MaxRawLen == 4

DLByteSet == {0, 1, 255}

\* Addresses: three that fit in a byte and two that do not.
DLAddressSet == {0, 63, 255, 256, -1}

DLDataInputs ==
    {DataLinkData(a, app, NoCrc) :
        a \in DLAddressSet, app \in SeqsBetween(DLByteSet, 0, MaxAppLen)}

\* Every frame that encode returns for an input above.
DLEncodedFrames ==
    {DataLinkEncode(d).val : d \in {e \in DLDataInputs : DataLinkEncode(e).kind = "ok"}}

\* f with the byte at (1-based) position i replaced by v.
WithByte(f, i, v) == [f EXCEPT ![i] = v]

DLCorruptedFrames ==
    UNION {{WithByte(f, iv[1], iv[2]) :
                iv \in {jw \in (1..Len(f)) \X DLByteSet : f[jw[1]] # jw[2]}} :
               f \in DLEncodedFrames}

DLRawInputs ==
    SeqsBetween(DLByteSet, 0, MaxRawLen) \cup DLEncodedFrames \cup DLCorruptedFrames

DataLinkInit ==
    /\ PhysIdle
    /\ FloatIdle
    /\ RegIdle
    /\ AppIdle
    /\ MsgIdle
    /\ ClientIdle
    /\ dl_encoded = NoResult
    /\ dl_decoded = NoResult
    /\ \/ /\ pc = "dl_start"
          /\ dl_data \in DLDataInputs
          /\ raw = <<>>
       \/ /\ pc = "dl_received"
          /\ dl_data = DataLinkData(0, <<>>, NoCrc)
          /\ raw \in DLRawInputs

DataLinkEncodeStep ==
    /\ pc = "dl_start"
    /\ dl_encoded' = DataLinkEncode(dl_data)
    /\ pc' = "dl_encoded"
    /\ UNCHANGED <<dl_data, raw, dl_decoded>>
    /\ UNCHANGED <<physVars, floatVars, regVars, appVars, msgVars, clientVars>>

\* The bytes returned by encode are handed to decode.
DataLinkDecodeEncodedStep ==
    /\ pc = "dl_encoded"
    /\ dl_encoded.kind = "ok"
    /\ raw' = dl_encoded.val
    /\ dl_decoded' = DataLinkDecode(raw')
    /\ pc' = "dl_roundtrip_done"
    /\ UNCHANGED <<dl_data, dl_encoded>>
    /\ UNCHANGED <<physVars, floatVars, regVars, appVars, msgVars, clientVars>>

DataLinkDecodeReceivedStep ==
    /\ pc = "dl_received"
    /\ dl_decoded' = DataLinkDecode(raw)
    /\ pc' = "dl_received_done"
    /\ UNCHANGED <<dl_data, raw, dl_encoded>>
    /\ UNCHANGED <<physVars, floatVars, regVars, appVars, msgVars, clientVars>>

\* One byte of the bytes that encode returned and decode accepted is
\* changed to another value, and the result is handed to decode.
DataLinkDecodeCorruptedStep ==
    /\ pc = "dl_roundtrip_done"
    /\ dl_decoded.kind = "ok"
    /\ \E i \in 1..Len(raw) :
       \E v \in Byte \ {raw[i]} :
          /\ raw' = WithByte(raw, i, v)
          /\ dl_decoded' = DataLinkDecode(raw')
    /\ pc' = "dl_corrupted_done"
    /\ UNCHANGED <<dl_data, dl_encoded>>
    /\ UNCHANGED <<physVars, floatVars, regVars, appVars, msgVars, clientVars>>

DataLinkNext ==
    \/ DataLinkEncodeStep
    \/ DataLinkDecodeEncodedStep
    \/ DataLinkDecodeReceivedStep

SpecDataLink == DataLinkInit /\ [][DataLinkNext]_vars

DataLinkCorruptedNext ==
    \/ DataLinkNext
    \/ DataLinkDecodeCorruptedStep

\* SpecDataLinkCorrupted: SpecDataLink, and the bytes of an encoded frame
\* damaged on their way to decode.
SpecDataLinkCorrupted == DataLinkInit /\ [][DataLinkCorruptedNext]_vars

-----------------------------------------------------------------------------
(* SpecFloat: FloatCodec.  Either a wire encoding is decoded by decode and *)
(* by decode_int_or_float and the decoded Decimal is encoded again (with   *)
(* no fixed length, or with the length of the original) and decoded, or a  *)
(* Decimal is encoded and the result decoded.                              *)

MaxMantissaLen == 2
MaxLongMantissaLen == 13
MaxDigits == 2
MaxLongDigits == 29
MaxHugeMantissaLen == 128

FloatSignExpBytes == {0, 1, 22, 23, 63, 64, 66, 127, 128, 194}

FloatMantissaByteSet == {0, 1, 10, 255}

FloatMantissaInputs ==
    SeqsBetween(FloatMantissaByteSet, 1, MaxMantissaLen)
        \cup {[i \in 1..n |-> b] : n \in (MaxMantissaLen + 1)..MaxLongMantissaLen,
                                   b \in {1, 255}}
        \cup {[i \in 1..n |-> b] : n \in (MaxHugeMantissaLen - 1)..MaxHugeMantissaLen,
                                   b \in {1, 255}}

FloatValidWireInputs ==
    {<<Len(m), se>> \o m : m \in FloatMantissaInputs, se \in FloatSignExpBytes}

\* Empty, length byte 0, and length byte not matching the length.
FloatInvalidWireInputs ==
    {<<>>, <<0>>, <<0, 194>>, <<0, 17, 1>>, <<1>>, <<1, 0>>, <<3, 17, 1>>, <<1, 0, 1, 1>>}

FloatWireInputs == FloatValidWireInputs \cup FloatInvalidWireInputs

FloatDigitsInputs ==
    {ds \in SeqsBetween({0, 1, 5}, 1, MaxDigits) : Len(ds) = 1 \/ ds[1] # 0}
        \cup {[i \in 1..n |-> d] : n \in (DECIMAL_PREC - 1)..MaxLongDigits, d \in {1, 9}}

FloatExponentInputs == {-64, -63, -1, 0, 1, 62, 63, 64}

FloatDecimalInputs ==
    {Decimal(sg, ds, ex) : sg \in {0, 1}, ds \in FloatDigitsInputs, ex \in FloatExponentInputs}
        \cup {SpecialDecimal(0, "n"), SpecialDecimal(0, "F"), SpecialDecimal(1, "F")}

FloatLengthInputs == {<<>>, <<0>>, <<1>>, <<2>>, <<4>>, <<13>>, <<255>>, <<256>>}

FloatInit ==
    /\ PhysIdle
    /\ DataLinkIdle
    /\ RegIdle
    /\ AppIdle
    /\ MsgIdle
    /\ ClientIdle
    /\ fl_decoded = NoResult
    /\ fl_int_or_float = NoResult
    /\ fl_encoded = NoResult
    /\ fl_redecoded = NoResult
    /\ \/ /\ pc = "fl_wire"
          /\ fl_data \in FloatWireInputs
          /\ to_encode = Decimal(0, <<0>>, 0)
          /\ significand_num_bytes = <<>>
       \/ /\ pc = "fl_value"
          /\ fl_data = <<>>
          /\ to_encode \in FloatDecimalInputs
          /\ significand_num_bytes \in FloatLengthInputs

FloatDecodeStep ==
    /\ pc = "fl_wire"
    /\ fl_decoded' = FloatDecode(fl_data)
    /\ pc' = "fl_decoded"
    /\ UNCHANGED <<fl_data, fl_int_or_float, to_encode, significand_num_bytes,
                   fl_encoded, fl_redecoded>>
    /\ UNCHANGED <<physVars, dlVars, regVars, appVars, msgVars, clientVars>>

FloatDecodeIntOrFloatStep ==
    /\ pc = "fl_decoded"
    /\ fl_int_or_float' \in FloatDecodeIntOrFloat(fl_data)
    /\ pc' = "fl_both_decoded"
    /\ UNCHANGED <<fl_data, fl_decoded, to_encode, significand_num_bytes,
                   fl_encoded, fl_redecoded>>
    /\ UNCHANGED <<physVars, dlVars, regVars, appVars, msgVars, clientVars>>

\* The decoded Decimal is encoded again: in the shortest form (None) or with
\* the significand length of the original encoding.
FloatReencodeStep ==
    /\ pc = "fl_both_decoded"
    /\ fl_decoded.kind = "ok"
    /\ to_encode' = fl_decoded.val
    /\ significand_num_bytes' \in {<<>>, <<Len(fl_data) - 2>>}
    /\ fl_encoded' = FloatEncode(to_encode', significand_num_bytes')
    /\ pc' = "fl_reencoded"
    /\ UNCHANGED <<fl_data, fl_decoded, fl_int_or_float, fl_redecoded>>
    /\ UNCHANGED <<physVars, dlVars, regVars, appVars, msgVars, clientVars>>

FloatEncodeStep ==
    /\ pc = "fl_value"
    /\ fl_encoded' = FloatEncode(to_encode, significand_num_bytes)
    /\ pc' = "fl_encoded"
    /\ UNCHANGED <<fl_data, fl_decoded, fl_int_or_float, to_encode,
                   significand_num_bytes, fl_redecoded>>
    /\ UNCHANGED <<physVars, dlVars, regVars, appVars, msgVars, clientVars>>

\* The bytes returned by encode are handed to decode.
FloatDecodeEncodedStep ==
    /\ pc \in {"fl_reencoded", "fl_encoded"}
    /\ fl_encoded.kind = "ok"
    /\ fl_redecoded' = FloatDecode(fl_encoded.val)
    /\ pc' = IF pc = "fl_reencoded" THEN "fl_wire_done" ELSE "fl_value_done"
    /\ UNCHANGED <<fl_data, fl_decoded, fl_int_or_float, to_encode,
                   significand_num_bytes, fl_encoded>>
    /\ UNCHANGED <<physVars, dlVars, regVars, appVars, msgVars, clientVars>>

FloatNext ==
    \/ FloatDecodeStep
    \/ FloatDecodeIntOrFloatStep
    \/ FloatReencodeStep
    \/ FloatEncodeStep
    \/ FloatDecodeEncodedStep

SpecFloat == FloatInit /\ [][FloatNext]_vars

-----------------------------------------------------------------------------
(* SpecRegister: GetRegisterResponse.decode, one action per iteration of   *)
(* its loop.  The payload is built from records with                       *)
(* _encode_one_register_value, then either followed by superfluous bytes   *)
(* or cut short.                                                           *)

MaxRecords == 3
MaxTailLen == 5
MaxTruncate == 4

RegIdSet == {128, 60}
RegUnitValueSet == {<<22, <<4, 17, 1, 42, 240, 36>>>>, <<4, <<1, 66, 5>>>>}
RegTailByteSet == {0, 1}
RegCommandIdSet == {GET_REGISTER, 2}

\* Records with one and with four mantissa bytes for two IDs, and a record
\* without mantissa bytes.
RegRecordInputs ==
    {RegisterData(id, uv[1], uv[2]) : id \in RegIdSet, uv \in RegUnitValueSet}
        \cup {RegisterData(60, 22, <<0, 0>>)}

RECURSIVE EncodeRecords(_)
EncodeRecords(records) ==
    IF records = <<>> THEN <<>>
    ELSE _encode_one_register_value(Head(records)) \o EncodeRecords(Tail(records))

\* A variant that emits the records last to first.
RegisterResponseEncode_reversed(regs) ==
    ApplicationData(GET_REGISTER,
                    EncodeRecords([i \in 1..Len(regs) |-> regs[Len(regs) + 1 - i]]))

\* GetRegisterResponse.encode: the records of registers.values() in the
\* mapping's order.
RegisterResponseEncode(regs) == ApplicationData(GET_REGISTER, EncodeRecords(regs))

RegisterInit ==
    /\ PhysIdle
    /\ DataLinkIdle
    /\ FloatIdle
    /\ AppIdle
    /\ MsgIdle
    /\ ClientIdle
    /\ pc = "reg_start"
    /\ reg_records \in SeqsBetween(RegRecordInputs, 0, MaxRecords)
    /\ \E command_id \in RegCommandIdSet :
       \E tail \in SeqsBetween(RegTailByteSet, 0, MaxTailLen) :
       \E cut \in 0..MaxTruncate :
          /\ tail = <<>> \/ cut = 0
          /\ cut <= Len(EncodeRecords(reg_records))
          /\ command_id # GET_REGISTER => Len(reg_records) <= 1
          /\ reg_app_data =
                ApplicationData(
                    command_id,
                    SubSeq(EncodeRecords(reg_records), 1,
                           Len(EncodeRecords(reg_records)) - cut) \o tail)
    /\ bytes_remaining = <<>>
    /\ registers = <<>>
    /\ reg_warnings = <<>>
    /\ reg_decoded = NoResult
    /\ reg_encoded = NoResult
    /\ reg_iterations = 0

\* decode up to the loop: the command ID is validated, the locals are set.
RegDecodeEnterStep ==
    /\ pc = "reg_start"
    /\ LET validated == _decode_validate_command_id(reg_app_data.command_id)
       IN  IF validated.kind # "ok"
           THEN /\ reg_decoded' = validated
                /\ pc' = "reg_done"
                /\ UNCHANGED <<bytes_remaining, registers>>
           ELSE /\ bytes_remaining' = reg_app_data.data
                /\ registers' = <<>>
                /\ pc' = "reg_loop"
                /\ UNCHANGED reg_decoded
    /\ UNCHANGED <<reg_records, reg_app_data, reg_warnings, reg_encoded, reg_iterations>>
    /\ UNCHANGED <<physVars, dlVars, floatVars, appVars, msgVars, clientVars>>

\* One iteration of the loop.
RegDecodeOneStep ==
    /\ pc = "reg_loop"
    /\ while_bytes_remaining(bytes_remaining)
    /\ reg_iterations' = reg_iterations + 1
    /\ LET one == _decode_one_register_value(bytes_remaining)
       IN  IF one.kind # "ok"
           THEN /\ reg_decoded' = one
                /\ pc' = "reg_done"
                /\ UNCHANGED <<bytes_remaining, registers, reg_warnings>>
           ELSE /\ bytes_remaining' = one.remaining
                /\ reg_warnings' =
                      reg_warnings \o one.warnings
                      \o (IF \E i \in 1..Len(registers) : registers[i].id_ = one.data.id_
                          THEN <<[msg |-> "Duplicate register ID in response, overwriting value.",
                                  id_ |-> one.data.id_]>>
                          ELSE <<>>)
                /\ registers' = update(registers, one.data)
                /\ UNCHANGED <<pc, reg_decoded>>
    /\ UNCHANGED <<reg_records, reg_app_data, reg_encoded>>
    /\ UNCHANGED <<physVars, dlVars, floatVars, appVars, msgVars, clientVars>>

\* The loop is left and the response is returned.
RegDecodeReturnStep ==
    /\ pc = "reg_loop"
    /\ ~while_bytes_remaining(bytes_remaining)
    /\ reg_decoded' = Ok([registers |-> registers, data_raw |-> reg_app_data.data])
    /\ pc' = "reg_done"
    /\ UNCHANGED <<reg_records, reg_app_data, bytes_remaining, registers, reg_warnings,
                   reg_encoded, reg_iterations>>
    /\ UNCHANGED <<physVars, dlVars, floatVars, appVars, msgVars, clientVars>>

\* encode() of the response that decode returned.
RegEncodeStep ==
    /\ pc = "reg_done"
    /\ reg_decoded.kind = "ok"
    /\ reg_encoded' = Ok(RegisterResponseEncode(reg_decoded.val.registers))
    /\ pc' = "reg_encoded"
    /\ UNCHANGED <<reg_records, reg_app_data, bytes_remaining, registers, reg_warnings,
                   reg_decoded, reg_iterations>>
    /\ UNCHANGED <<physVars, dlVars, floatVars, appVars, msgVars, clientVars>>

RegisterNext ==
    \/ RegDecodeEnterStep
    \/ RegDecodeOneStep
    \/ RegDecodeReturnStep
    \/ RegEncodeStep

SpecRegister == RegisterInit /\ [][RegisterNext]_vars

\* decode is one call on one thread: once entered it runs on until it
\* returns or raises, and encode() of the returned response follows.
SpecRegisterLive == SpecRegister /\ WF_vars(RegisterNext)

-----------------------------------------------------------------------------
(* SpecApplication: ApplicationCodec.encode followed by decode of its      *)
(* result, and ApplicationCodec.decode of received bytes.                  *)

MaxAppDataLen == 2

AppByteSet == {0, 16, 255}

\* Every command ID that fits in a byte, and some that do not.
AppCommandIdSet == Byte \cup {-256, -1, 256, 65535}

AppDataInputs ==
    {ApplicationData(c, d) :
        c \in AppCommandIdSet, d \in SeqsBetween(AppByteSet, 0, MaxAppDataLen)}

AppBytesInputs == SeqsBetween(AppByteSet, 0, MaxAppDataLen + 1)

ApplicationInit ==
    /\ PhysIdle
    /\ DataLinkIdle
    /\ FloatIdle
    /\ RegIdle
    /\ MsgIdle
    /\ ClientIdle
    /\ app_encoded = NoResult
    /\ app_decoded = NoResult
    /\ \/ /\ pc = "app_start"
          /\ app_to_encode \in AppDataInputs
          /\ app_bytes = <<>>
       \/ /\ pc = "app_received"
          /\ app_to_encode = ApplicationData(0, <<>>)
          /\ app_bytes \in AppBytesInputs

AppEncodeStep ==
    /\ pc = "app_start"
    /\ app_encoded' = ApplicationEncode(app_to_encode)
    /\ pc' = "app_encoded"
    /\ UNCHANGED <<app_to_encode, app_bytes, app_decoded>>
    /\ UNCHANGED <<physVars, dlVars, floatVars, regVars, msgVars, clientVars>>

\* The bytes returned by encode are handed to decode.
AppDecodeEncodedStep ==
    /\ pc = "app_encoded"
    /\ app_encoded.kind = "ok"
    /\ app_bytes' = app_encoded.val
    /\ app_decoded' = ApplicationDecode(app_bytes')
    /\ pc' = "app_roundtrip_done"
    /\ UNCHANGED <<app_to_encode, app_encoded>>
    /\ UNCHANGED <<physVars, dlVars, floatVars, regVars, msgVars, clientVars>>

AppDecodeReceivedStep ==
    /\ pc = "app_received"
    /\ app_decoded' = ApplicationDecode(app_bytes)
    /\ pc' = "app_received_done"
    /\ UNCHANGED <<app_to_encode, app_bytes, app_encoded>>
    /\ UNCHANGED <<physVars, dlVars, floatVars, regVars, msgVars, clientVars>>

ApplicationNext ==
    \/ AppEncodeStep
    \/ AppDecodeEncodedStep
    \/ AppDecodeReceivedStep

SpecApplication == ApplicationInit /\ [][ApplicationNext]_vars

-----------------------------------------------------------------------------
(* SpecMessage: the requests and responses other than GetRegisterResponse. *)
(* Either received application data is decoded to an instance of a class   *)
(* and the instance is encoded again, or an instance is constructed from   *)
(* arguments and encoded.                                                  *)

MaxCount == 9
MaxSmallPayloadLen == 5
MaxNumberLen == 3
MaxSerialLen == 3

MsgClasses ==
    {"GetTypeRequest", "GetTypeResponse", "GetSerialRequest", "GetSerialResponse",
     "GetRegisterRequest"}

WithoutDataClasses == {"GetTypeRequest", "GetSerialRequest"}

MsgCommandIdSet == {GET_TYPE, GET_SERIAL, GET_REGISTER}

\* Short payloads, decoded by every class under every command ID.
MsgSmallPayloads == SeqsBetween({0, 1}, 0, MaxSmallPayloadLen)

\* GetType response payloads: every number byte with every letter byte up
\* to 27 and with 255.
GetTypePayloads ==
    {<<0, 4, l, n>> : l \in (0..27) \cup {255}, n \in Byte}

GetSerialPayloads == [1..SERIAL_LENGTH_ENCODED -> {0, 1, 255}]

\* GetRegister request payloads: a count byte c, and 2c bytes or one fewer
\* or up to two more.
GetRegisterRequestPayloads ==
    {<<c>> \o [i \in 1..((2 * c) + extra) |-> (37 * i) % 256] :
        c \in (0..MaxCount) \cup {255}, extra \in {0, 1, 2}}
    \cup {<<c>> \o [i \in 1..((2 * c) - 1) |-> (37 * i) % 256] :
            c \in (1..MaxCount) \cup {255}}

ClassPayloads(cls) ==
    CASE cls = "GetTypeResponse" -> GetTypePayloads
      [] cls = "GetSerialResponse" -> GetSerialPayloads
      [] cls = "GetRegisterRequest" -> GetRegisterRequestPayloads
      [] OTHER -> {}

\* Software revision strings: a letter part, digits, and trailing content.
RevisionLetterParts ==
    {<<>>, <<65>>, <<70>>, <<90>>, <<97>>, <<64>>, <<91>>, <<32, 65>>, <<65, 65>>}

RevisionNumbers == SeqsBetween({48, 49, 50, 53, 54}, 0, MaxNumberLen)

RevisionSuffixes == {<<>>, <<10>>, <<32>>, <<10, 10>>}

RevisionStrings ==
    {l \o n \o x : l \in RevisionLetterParts, n \in RevisionNumbers,
                   x \in RevisionSuffixes}

GetTypeResponseArgs ==
    {[meter_type_bytes |-> <<0, 4>>, software_revision |-> r] :
        r \in {<<>>} \cup {<<s>> : s \in RevisionStrings}}
    \cup {[meter_type_bytes |-> m, software_revision |-> r] :
            m \in {<<0>>, <<0, 4, 1>>}, r \in {<<>>, <<<<65, 49>>>>}}

\* Serial strings: short ones over digits, signs, underscore, space and a
\* letter, and long ones around 2^32.
SerialStrings ==
    SeqsBetween({48, 49, 57, 43, 45, 95, 32, 97}, 0, MaxSerialLen)
    \cup {<<52, 50, 57, 52, 57, 54, 55, 50, 57, 53>>,
          <<52, 50, 57, 52, 57, 54, 55, 50, 57, 54>>,
          <<48, 52, 50, 57, 52, 57, 54, 55, 50, 57, 53>>,
          <<57, 57, 57, 57, 57, 57, 57, 57, 57, 57, 57>>}

GetSerialResponseArgs == {[serial |-> s] : s \in SerialStrings}

GetRegisterRequestArgs ==
    {[registers |-> [i \in 1..n |-> 59 + i]] : n \in 0..MaxCount}
    \cup {[registers |-> r] : r \in SeqsBetween({-1, 60, 65535, 65536}, 1, 2)}

ClassArgs(cls) ==
    CASE cls = "GetTypeResponse" -> GetTypeResponseArgs
      [] cls = "GetSerialResponse" -> GetSerialResponseArgs
      [] cls = "GetRegisterRequest" -> GetRegisterRequestArgs
      [] OTHER -> {<<>>}

MessageInit ==
    /\ PhysIdle
    /\ DataLinkIdle
    /\ FloatIdle
    /\ RegIdle
    /\ AppIdle
    /\ ClientIdle
    /\ msg_class \in MsgClasses
    /\ msg_object = NoResult
    /\ msg_warnings = <<>>
    /\ msg_encoded = NoResult
    /\ \/ /\ pc = "msg_received"
          /\ msg_args = <<>>
          /\ \E command_id \in MsgCommandIdSet :
             \E payload \in MsgSmallPayloads \cup ClassPayloads(msg_class) :
                /\ \/ payload \in MsgSmallPayloads
                   \/ command_id = class_command_id(msg_class)
                /\ msg_app_data = ApplicationData(command_id, payload)
       \/ /\ pc = "msg_new"
          /\ msg_args \in ClassArgs(msg_class)
          /\ msg_app_data = ApplicationData(0, <<>>)

\* cls() of a class without data.
WithoutDataNewStep ==
    /\ pc = "msg_new"
    /\ msg_class \in WithoutDataClasses
    /\ msg_object' = Ok([class |-> msg_class])
    /\ pc' = "msg_constructed"
    /\ UNCHANGED <<msg_class, msg_args, msg_app_data, msg_warnings, msg_encoded>>
    /\ UNCHANGED <<physVars, dlVars, floatVars, regVars, appVars, clientVars>>

GetTypeResponseNewStep ==
    /\ pc = "msg_new"
    /\ msg_class = "GetTypeResponse"
    /\ msg_object' = Ok(GetTypeResponse(msg_args.meter_type_bytes,
                                        msg_args.software_revision, <<>>))
    /\ pc' = "msg_constructed"
    /\ UNCHANGED <<msg_class, msg_args, msg_app_data, msg_warnings, msg_encoded>>
    /\ UNCHANGED <<physVars, dlVars, floatVars, regVars, appVars, clientVars>>

GetSerialResponseNewStep ==
    /\ pc = "msg_new"
    /\ msg_class = "GetSerialResponse"
    /\ msg_object' = GetSerialResponse(msg_args.serial, <<>>)
    /\ pc' = "msg_constructed"
    /\ UNCHANGED <<msg_class, msg_args, msg_app_data, msg_warnings, msg_encoded>>
    /\ UNCHANGED <<physVars, dlVars, floatVars, regVars, appVars, clientVars>>

GetRegisterRequestNewStep ==
    /\ pc = "msg_new"
    /\ msg_class = "GetRegisterRequest"
    /\ msg_object' = GetRegisterRequest(msg_args.registers, <<>>)
    /\ pc' = "msg_constructed"
    /\ UNCHANGED <<msg_class, msg_args, msg_app_data, msg_warnings, msg_encoded>>
    /\ UNCHANGED <<physVars, dlVars, floatVars, regVars, appVars, clientVars>>

WithoutDataDecodeStep ==
    /\ pc = "msg_received"
    /\ msg_class \in WithoutDataClasses
    /\ msg_object' = WithoutDataDecode(msg_class, msg_app_data)
    /\ pc' = "msg_decoded"
    /\ UNCHANGED <<msg_class, msg_args, msg_app_data, msg_warnings, msg_encoded>>
    /\ UNCHANGED <<physVars, dlVars, floatVars, regVars, appVars, clientVars>>

GetTypeResponseDecodeStep ==
    /\ pc = "msg_received"
    /\ msg_class = "GetTypeResponse"
    /\ msg_object' = GetTypeResponseDecode(msg_app_data)
    /\ pc' = "msg_decoded"
    /\ UNCHANGED <<msg_class, msg_args, msg_app_data, msg_warnings, msg_encoded>>
    /\ UNCHANGED <<physVars, dlVars, floatVars, regVars, appVars, clientVars>>

GetSerialResponseDecodeStep ==
    /\ pc = "msg_received"
    /\ msg_class = "GetSerialResponse"
    /\ msg_object' = GetSerialResponseDecode(msg_app_data)
    /\ pc' = "msg_decoded"
    /\ UNCHANGED <<msg_class, msg_args, msg_app_data, msg_warnings, msg_encoded>>
    /\ UNCHANGED <<physVars, dlVars, floatVars, regVars, appVars, clientVars>>

GetRegisterRequestDecodeStep ==
    /\ pc = "msg_received"
    /\ msg_class = "GetRegisterRequest"
    /\ msg_warnings' = GetRegisterRequestDecodeWarnings(msg_app_data)
    /\ msg_object' = GetRegisterRequestDecode(msg_app_data)
    /\ pc' = "msg_decoded"
    /\ UNCHANGED <<msg_class, msg_args, msg_app_data, msg_encoded>>
    /\ UNCHANGED <<physVars, dlVars, floatVars, regVars, appVars, clientVars>>

\* encode() of the instance that decode returned goes to "msg_reencoded",
\* encode() of a constructed instance to "msg_encoded".
MsgEncoded(encoded) ==
    /\ pc \in {"msg_decoded", "msg_constructed"}
    /\ msg_object.kind = "ok"
    /\ msg_encoded' = encoded
    /\ pc' = IF pc = "msg_decoded" THEN "msg_reencoded" ELSE "msg_encoded"
    /\ UNCHANGED <<msg_class, msg_args, msg_app_data, msg_object, msg_warnings>>
    /\ UNCHANGED <<physVars, dlVars, floatVars, regVars, appVars, clientVars>>

WithoutDataEncodeStep ==
    /\ msg_class \in WithoutDataClasses
    /\ MsgEncoded(WithoutDataEncode(msg_object.val))

GetTypeResponseEncodeStep ==
    /\ msg_class = "GetTypeResponse"
    /\ MsgEncoded(GetTypeResponseEncode(msg_object.val))

GetSerialResponseEncodeStep ==
    /\ msg_class = "GetSerialResponse"
    /\ MsgEncoded(GetSerialResponseEncode(msg_object.val))

GetRegisterRequestEncodeStep ==
    /\ msg_class = "GetRegisterRequest"
    /\ MsgEncoded(GetRegisterRequestEncode(msg_object.val))

MessageNext ==
    \/ WithoutDataNewStep
    \/ GetTypeResponseNewStep
    \/ GetSerialResponseNewStep
    \/ GetRegisterRequestNewStep
    \/ WithoutDataDecodeStep
    \/ GetTypeResponseDecodeStep
    \/ GetSerialResponseDecodeStep
    \/ GetRegisterRequestDecodeStep
    \/ WithoutDataEncodeStep
    \/ GetTypeResponseEncodeStep
    \/ GetSerialResponseEncodeStep
    \/ GetRegisterRequestEncodeStep

SpecMessage == MessageInit /\ [][MessageNext]_vars

\* SpecDecode: decode of every message class, GetRegisterResponse included.
SpecDecode ==
    (MessageInit \/ RegisterInit) /\ [][MessageNext \/ RegisterNext]_vars

-----------------------------------------------------------------------------
(* SpecClient: ClientCommunicator.send_request with the read and write of  *)
(* PySerialClientCommunicator, one action per call it makes.  The port     *)
(* delivers nothing, an acknowledgement, the frame of a response of any of *)
(* the three classes for one of two addresses, or a damaged frame.         *)

\* Every destination address that fits a byte, and one that does not.
ClAddressSet == Byte \cup {256}

ClRegisterIdInputs == {<<>>, <<60>>, <<60, 128>>}

ClMessages ==
    {[class |-> "GetTypeRequest"], [class |-> "GetSerialRequest"]}
        \cup {GetRegisterRequest(r, <<>>).val : r \in ClRegisterIdInputs}

\* The address the meter answers with: the default, and a special byte.
ClResponseAddressSet == {DESTINATION_ADDRESS_DEFAULT, START_FROM_METER}

\* The application data of a response of each class; the serial holds the
\* stop byte.
ClResponsePayloads ==
    {ApplicationData(GET_TYPE, <<0, 83, 2, 1>>),
     ApplicationData(GET_SERIAL, <<0, STOP, STUFFING, 1>>),
     ApplicationData(GET_REGISTER,
                     EncodeRecords(<<RegisterData(60, 22, <<4, 17, 1, 42, 240, 36>>),
                                     RegisterData(128, 4, <<1, 66, 5>>)>>))}

\* The frame the meter sends for application data, as the codecs of the
\* three layers build it.
ResponseFrame(addr, application_data) ==
    PhysicalEncode(
        "FROM_METER",
        DataLinkEncode(
            DataLinkData(addr, ApplicationEncode(application_data).val, NoCrc)).val).val

ClResponseFrames ==
    {ResponseFrame(addr, p) : addr \in ClResponseAddressSet, p \in ClResponsePayloads}

\* A frame cut before its stop byte, one followed by further bytes, one
\* with a changed byte, one with the start byte of the other direction.
ClDamagedFrames ==
    LET f == ResponseFrame(DESTINATION_ADDRESS_DEFAULT,
                           ApplicationData(GET_TYPE, <<0, 83, 2, 1>>))
    IN  {SubSeq(f, 1, Len(f) - 1), f \o <<1, STOP>>, WithByte(f, 4, 84),
         WithByte(f, 1, START_TO_METER), <<START_FROM_METER, STOP>>}

ClIncoming ==
    {<<>>, ACK_BYTES, ACK_BYTES \o ACK_BYTES} \cup ClResponseFrames \cup ClDamagedFrames

ClientInit ==
    /\ PhysIdle
    /\ DataLinkIdle
    /\ FloatIdle
    /\ RegIdle
    /\ AppIdle
    /\ MsgIdle
    /\ pc = "cl_start"
    /\ cl_destination_address \in ClAddressSet
    /\ cl_message \in ClMessages
    /\ cl_incoming = <<>>
    /\ cl_encoded = NoResult
    /\ cl_io = <<>>
    /\ cl_received = NoResult
    /\ cl_result = NoResult

\* send_request up to the call of write: the ClientCodec is built and the
\* request is encoded; an exception of encode leaves send_request.
ClientEncodeStep ==
    /\ pc = "cl_start"
    /\ LET encoded == ClientEncode(ClientCodec(cl_destination_address), cl_message)
       IN  /\ cl_encoded' = encoded
           /\ IF encoded.kind # "ok"
              THEN cl_result' = encoded /\ pc' = "cl_done"
              ELSE pc' = "cl_encoded" /\ UNCHANGED cl_result
    /\ UNCHANGED <<cl_destination_address, cl_message, cl_incoming, cl_io, cl_received>>
    /\ UNCHANGED <<physVars, dlVars, floatVars, regVars, appVars, msgVars>>

\* self.write(request_physical_bytes)
ClientWriteStep ==
    /\ pc = "cl_encoded"
    /\ cl_io' = Append(cl_io, [call |-> "write", data |-> cl_encoded.val.physical_bytes])
    /\ pc' = "cl_written"
    /\ UNCHANGED <<cl_destination_address, cl_message, cl_incoming, cl_encoded,
                   cl_received, cl_result>>
    /\ UNCHANGED <<physVars, dlVars, floatVars, regVars, appVars, msgVars>>

\* self.read(): a TimeoutError leaves send_request.
ClientReadStep ==
    /\ pc = "cl_written"
    /\ \E incoming \in ClIncoming :
          /\ cl_incoming' = incoming
          /\ cl_received' = read(incoming)
    /\ cl_io' = Append(cl_io, [call |-> "read", data |-> <<>>])
    /\ IF cl_received'.kind # "ok"
       THEN cl_result' = cl_received' /\ pc' = "cl_done"
       ELSE pc' = "cl_read" /\ UNCHANGED cl_result
    /\ UNCHANGED <<cl_destination_address, cl_message, cl_encoded>>
    /\ UNCHANGED <<physVars, dlVars, floatVars, regVars, appVars, msgVars>>

\* client_codec.decode(frame=wrapped_frame), whose outcome is the outcome
\* of send_request.
ClientDecodeStep ==
    /\ pc = "cl_read"
    /\ cl_result' = ClientDecode(ClientCodec(cl_destination_address),
                                 EncodedClientResponse(cl_received.val, cl_message.class))
    /\ pc' = "cl_done"
    /\ UNCHANGED <<cl_destination_address, cl_message, cl_incoming, cl_encoded, cl_io,
                   cl_received>>
    /\ UNCHANGED <<physVars, dlVars, floatVars, regVars, appVars, msgVars>>

ClientNext ==
    \/ ClientEncodeStep
    \/ ClientWriteStep
    \/ ClientReadStep
    \/ ClientDecodeStep

SpecClient == ClientInit /\ [][ClientNext]_vars

-----------------------------------------------------------------------------
(* Claims about PhysicalCodec and DataLinkCodec.                           *)

\* C1: byte-stuffing symmetry: for either direction and every non-empty byte
\* string x, decode(encode(x)) returns x.
C1_StuffingSymmetry ==
    (pc = "phys_done" /\ data_bytes # <<>>) => phys_decoded = Ok(data_bytes)

\* C2: DataLinkCodec.decode(raw) raises the length error when len(raw) < 4;
\* for len(raw) >= 4 it returns data iff the CRC over the whole of raw is zero,
\* which is the case exactly when the last two bytes of raw are the big-endian
\* CRC of raw[:-2]; in every other case it raises the checksum error.
C2_DecodePartition ==
    pc \in {"dl_received_done", "dl_roundtrip_done"} =>
        /\ Len(raw) < 4 =>
              /\ dl_decoded.kind = "DataLengthUnexpectedError"
              /\ dl_decoded.actual = Len(raw)
        /\ Len(raw) >= 4 =>
              /\ dl_decoded.kind = "ok" <=> checksum(raw) = 0
              /\ checksum(raw) = 0 <=>
                    SubSeq(raw, Len(raw) - 1, Len(raw))
                        = ToBytes2(checksum(SubSeq(raw, 1, Len(raw) - 2)))
              /\ dl_decoded.kind # "ok" => dl_decoded.kind = "CrcChecksumInvalidError"

\* C2 witness: a received frame of at least four bytes whose checksum bytes do
\* not match was rejected, and it differs from an accepted frame in one byte.
C2_Witness ==
    /\ pc = "dl_received_done"
    /\ raw \in DLCorruptedFrames
    /\ Len(raw) >= 4
    /\ dl_decoded.kind = "CrcChecksumInvalidError"

\* C3: for every DataLinkData with destination_address in 0..255 and non-empty
\* application_bytes, encode succeeds, decode of its result succeeds and returns
\* the same address and application bytes, with crc_value the CRC of address
\* byte + application bytes, which is the value of the last two encoded bytes.
C3_DataLinkRoundTrip ==
    LET valid == /\ dl_data.destination_address \in Byte
                 /\ Len(dl_data.application_bytes) >= 1
    IN  /\ (pc = "dl_encoded" /\ valid) => dl_encoded.kind = "ok"
        /\ (pc = "dl_roundtrip_done" /\ valid) =>
              /\ dl_decoded.kind = "ok"
              /\ dl_decoded.val.destination_address = dl_data.destination_address
              /\ dl_decoded.val.application_bytes = dl_data.application_bytes
              /\ dl_decoded.val.crc_value =
                    checksum(<<dl_data.destination_address>> \o dl_data.application_bytes)
              /\ dl_decoded.val.crc_value =
                    FromBytes2(SubSeq(dl_encoded.val, Len(dl_encoded.val) - 1,
                                      Len(dl_encoded.val)))

\* C3 witness: a round trip of a frame with a non-zero checksum has completed.
C3_Witness ==
    /\ pc = "dl_roundtrip_done"
    /\ dl_decoded.kind = "ok"
    /\ dl_decoded.val.crc_value # 0
    /\ Len(dl_data.application_bytes) >= 2

-----------------------------------------------------------------------------
(* Claims about FloatCodec.                                                *)

\* |x|
Abs(x) == IF x < 0 THEN 0 - x ELSE x

\* C4: shortest-form idempotence: for every valid float encoding e, encode of
\* decode(e) with no fixed length succeeds and returns the minimal-length form
\* s (no leading zero byte in the mantissa), and decode(s) succeeds and equals
\* decode(e).
C4_ShortestFormIdempotence ==
    (fl_decoded.kind = "ok" /\ significand_num_bytes = <<>>) =>
        /\ pc = "fl_reencoded" =>
              /\ fl_encoded.kind = "ok"
              /\ fl_encoded.val[1] = Len(fl_encoded.val) - 2
              /\ Len(fl_encoded.val) > 2 => fl_encoded.val[3] # 0
        /\ pc = "fl_wire_done" =>
              /\ fl_redecoded.kind = "ok"
              /\ DecimalEq(fl_redecoded.val, fl_decoded.val)

\* C5: float value round trip: for every finite Decimal v and significand
\* length n >= 1 such that v's integer mantissa fits in n bytes and its
\* exponent magnitude is at most 63 (both as v is given and with v's trailing
\* zeros moved into the exponent), encode(v, n) succeeds and decode of the
\* result equals v.
C5_FloatValueRoundTrip ==
    LET v == to_encode
        stripped == StripTrailingZeros(v.digits)
        stripped_exponent == v.exponent + (Len(v.digits) - Len(stripped))
        covered ==
            /\ pc \in {"fl_encoded", "fl_value_done"}
            /\ v.special = ""
            /\ significand_num_bytes # <<>>
            /\ significand_num_bytes[1] >= 1
            /\ Len(int_of_digits(v.digits)) <= significand_num_bytes[1]
            /\ Abs(v.exponent) <= 63
            /\ stripped # <<>> => Abs(stripped_exponent) <= 63
    IN  covered =>
            /\ fl_encoded.kind = "ok"
            /\ pc = "fl_value_done" =>
                  /\ fl_redecoded.kind = "ok"
                  /\ DecimalEq(fl_redecoded.val, v)

\* C6 as stated: float wire symmetry: for every valid float encoding e,
\* encode(decode(e), len(e) - 2) returns e.
C6_FloatWireSymmetry ==
    (pc = "fl_reencoded" /\ significand_num_bytes = <<Len(fl_data) - 2>>) =>
        fl_encoded = Ok(fl_data)

\* The valid encodings that encode itself produces for their length: the
\* exponent is not a negative zero, and the mantissa is either zero with a zero
\* exponent, or non-zero, not a multiple of ten and of at most DECIMAL_PREC
\* decimal digits.
FloatCanonical(e) ==
    LET p == _decode_parts(e).val
        digits == str_digits(p.mantissa)
    IN  /\ ~(p.exponent_negative /\ p.exponent = 0)
        /\ \/ p.mantissa = <<>> /\ p.exponent = 0
           \/ /\ p.mantissa # <<>>
              /\ digits[Len(digits)] # 0
              /\ Len(digits) <= DECIMAL_PREC

\* C6 amended: for every valid float encoding e, encode(decode(e), len(e) - 2)
\* returns e exactly when e is canonical in the sense above.
C6_WireSymmetryOfCanonical ==
    (pc = "fl_reencoded" /\ significand_num_bytes = <<Len(fl_data) - 2>>) =>
        (fl_encoded = Ok(fl_data) <=> FloatCanonical(fl_data))

\* C6 witness: a canonical four-byte-mantissa encoding with leading zero bytes
\* and a negative exponent was decoded and encoded again with length 2.
C6_Witness ==
    /\ pc = "fl_reencoded"
    /\ significand_num_bytes = <<2>>
    /\ Len(fl_data) = 4
    /\ fl_data[3] = 0
    /\ fl_data[2] = 194
    /\ FloatCanonical(fl_data)
    /\ fl_encoded = Ok(fl_data)

\* C7: for every valid float encoding whose exponent-sign bit is clear,
\* decode_int_or_float returns the integer sign * mantissa * 10 ** exponent.
C7_IntOrFloatExactInteger ==
    (/\ pc = "fl_both_decoded"
     /\ _decode_parts(fl_data).kind = "ok"
     /\ ~_decode_parts(fl_data).val.exponent_negative) =>
        LET p == _decode_parts(fl_data).val
        IN  fl_int_or_float = Ok(PyInt(p.negative, MulPow10(p.mantissa, p.exponent)))

-----------------------------------------------------------------------------
(* Claims about GetRegisterResponse.decode.                                *)

\* The payload that the records encode to, before bytes are added or cut.
RegRecordsPayload == EncodeRecords(reg_records)

\* A record as the response format describes it: a length byte L >= 1, the
\* sign/exponent byte and L mantissa bytes.
RegWellFormed(record) ==
    /\ Len(record.value) >= 3
    /\ record.value[1] = Len(record.value) - 2

\* The indices of the records whose ID occurs in an earlier record.
RegRepeats == {i \in 1..Len(reg_records) :
                  \E j \in 1..(i - 1) : reg_records[j].id_ = reg_records[i].id_}

RegIsShortWarning(w) ==
    w.msg = "Remaining data after decoding register value is unexpectedly short."

RegIsDuplicateWarning(w) ==
    w.msg = "Duplicate register ID in response, overwriting value."

RegShortWarnings == {i \in 1..Len(reg_warnings) : RegIsShortWarning(reg_warnings[i])}

\* C8: decode of a payload made of well-formed records returns a response,
\* whatever IDs repeat; its mapping has exactly one entry per distinct ID,
\* holding the last record with that ID, and the warnings are exactly one
\* duplicate warning for each record whose ID occurred earlier.
C8_DuplicateLastWriteWins ==
    (/\ pc = "reg_done"
     /\ reg_app_data = ApplicationData(GET_REGISTER, RegRecordsPayload)
     /\ \A i \in 1..Len(reg_records) : RegWellFormed(reg_records[i])) =>
        /\ reg_decoded.kind = "ok"
        /\ LET regs == reg_decoded.val.registers
           IN  /\ \A i, j \in 1..Len(regs) : regs[i].id_ = regs[j].id_ => i = j
               /\ {regs[i].id_ : i \in 1..Len(regs)}
                      = {reg_records[i].id_ : i \in 1..Len(reg_records)}
               /\ \A i \in 1..Len(regs) :
                      \E k \in 1..Len(reg_records) :
                          /\ reg_records[k] = regs[i]
                          /\ \A m \in (k + 1)..Len(reg_records) :
                                 reg_records[m].id_ # regs[i].id_
        /\ Len(reg_warnings) = Cardinality(RegRepeats)
        /\ \A id \in RegIdSet :
               Cardinality({i \in 1..Len(reg_warnings) :
                               /\ RegIsDuplicateWarning(reg_warnings[i])
                               /\ reg_warnings[i].id_ = id})
                   = Cardinality({i \in RegRepeats : reg_records[i].id_ = id})

\* C8 witness: three well-formed records with the same ID, the last differing
\* from the first, were decoded with two duplicate warnings.
C8_Witness ==
    /\ pc = "reg_done"
    /\ reg_app_data = ApplicationData(GET_REGISTER, RegRecordsPayload)
    /\ Len(reg_records) = 3
    /\ \A i \in 1..3 : RegWellFormed(reg_records[i]) /\ reg_records[i].id_ = 128
    /\ reg_records[1] # reg_records[3]
    /\ reg_decoded.kind = "ok"
    /\ reg_decoded.val.registers = <<reg_records[3]>>
    /\ Len(reg_warnings) = 2

\* C9 as stated: when a consumed record leaves 1 to 5 bytes, which is logged,
\* decode does not raise an error because of those bytes.
C9_TrailingFragmentTolerated ==
    (pc = "reg_done" /\ RegShortWarnings # {}) => reg_decoded.kind = "ok"

\* C9 amended: when a consumed record leaves k bytes with 1 <= k <= 5, this is
\* logged as a warning naming k, once, and decode then raises
\* DataLengthUnexpectedError for the data to decode register data with actual
\* length k and minimum length 6; it returns no response.
C9_TrailingFragmentLoggedThenFails ==
    /\ Cardinality(RegShortWarnings) <= 1
    /\ (/\ pc = "reg_loop"
        /\ registers # <<>>
        /\ 0 < Len(bytes_remaining)
        /\ Len(bytes_remaining) < len_min) =>
            \E i \in RegShortWarnings :
                /\ reg_warnings[i].len = Len(bytes_remaining)
                /\ reg_warnings[i].min = len_min
    /\ (pc = "reg_done" /\ RegShortWarnings # {}) =>
            \A i \in RegShortWarnings :
                reg_decoded =
                    [kind |-> "DataLengthUnexpectedError",
                     what |-> "Data to decode register data",
                     length_expected |-> len_min, expected_is_minimum |-> TRUE,
                     actual |-> reg_warnings[i].len]

\* C9 witness: two records were consumed, five bytes were left and logged, and
\* decode raised the length error for them.
C9_Witness ==
    /\ pc = "reg_done"
    /\ Len(registers) = 2
    /\ Len(bytes_remaining) = 5
    /\ \E i \in RegShortWarnings : reg_warnings[i].len = 5
    /\ reg_decoded.kind = "DataLengthUnexpectedError"
    /\ reg_decoded.actual = 5

\* The payload is one or more complete records followed by 1 to 5 bytes.
RegSuperfluous ==
    /\ reg_app_data.command_id = GET_REGISTER
    /\ Len(reg_records) >= 1
    /\ Len(reg_app_data.data) - Len(RegRecordsPayload) \in 1..5
    /\ SubSeq(reg_app_data.data, 1, Len(RegRecordsPayload)) = RegRecordsPayload

\* The number of bytes of the last record that the payload still holds.
RegLastRecordLeft ==
    Len(_encode_one_register_value(reg_records[Len(reg_records)]))
        - (Len(RegRecordsPayload) - Len(reg_app_data.data))

\* The payload is one or more records of which the last is cut off inside its
\* value: the ID and unit bytes and at least one byte of the value are there,
\* at least one byte of the value is not.
RegTruncatedInValue ==
    /\ reg_app_data.command_id = GET_REGISTER
    /\ Len(reg_records) >= 1
    /\ Len(reg_app_data.data) < Len(RegRecordsPayload)
    /\ reg_app_data.data = SubSeq(RegRecordsPayload, 1, Len(reg_app_data.data))
    /\ RegLastRecordLeft >= 4

RegSuperfluousFails ==
    (pc = "reg_done" /\ RegSuperfluous) =>
        reg_decoded =
            [kind |-> "DataLengthUnexpectedError",
             what |-> "Data to decode register data",
             length_expected |-> 6, expected_is_minimum |-> TRUE,
             actual |-> Len(reg_app_data.data) - Len(RegRecordsPayload)]

\* C10 as stated: complete records followed by k superfluous bytes, 1 <= k <=
\* 5, fail with DataLengthUnexpectedError (actual k, minimum 6), and a payload
\* truncated inside a record's value fails with DataLengthUnexpectedError for
\* the register value data left in buffer.
C10_SuperfluousOrTruncatedFails ==
    /\ RegSuperfluousFails
    /\ (pc = "reg_done" /\ RegTruncatedInValue) =>
           /\ reg_decoded.kind = "DataLengthUnexpectedError"
           /\ reg_decoded.what = "Register value data left in buffer"

\* C10 amended: as above for superfluous bytes; a payload truncated inside a
\* record's value fails with DataLengthUnexpectedError, which is the one for
\* the register value data left in buffer (actual: the bytes left of the
\* record, minimum: the record's length) when at least 6 bytes of the record
\* are left, and the one for the data to decode register data (actual: the
\* bytes left, minimum 6) when fewer are left.
C10_TruncatedFailsByBytesLeft ==
    /\ RegSuperfluousFails
    /\ (pc = "reg_done" /\ RegTruncatedInValue) =>
           reg_decoded =
               [kind |-> "DataLengthUnexpectedError",
                what |-> IF RegLastRecordLeft >= len_min
                         THEN "Register value data left in buffer"
                         ELSE "Data to decode register data",
                length_expected |->
                    IF RegLastRecordLeft >= len_min
                    THEN Len(_encode_one_register_value(reg_records[Len(reg_records)]))
                    ELSE len_min,
                expected_is_minimum |-> TRUE,
                actual |-> RegLastRecordLeft]

\* C10 witness: after one complete record, a record cut off inside its value
\* with eight of its nine bytes left raised the error for the register value
\* data left in buffer.
C10_Witness ==
    /\ pc = "reg_done"
    /\ RegTruncatedInValue
    /\ Len(reg_records) = 2
    /\ RegLastRecordLeft = 8
    /\ Len(registers) = 1
    /\ reg_decoded.kind = "DataLengthUnexpectedError"
    /\ reg_decoded.what = "Register value data left in buffer"
    /\ reg_decoded.actual = 8
    /\ reg_decoded.length_expected = 9

\* C11: for every payload p that decode accepts without a repeated register
\* ID (no duplicate warning), the empty payload included, encode() of the
\* decoded response returns ApplicationData with command ID 0x10 and data p;
\* the records are those of p in wire order.
C11_RegisterEncodeReversesDecode ==
    (/\ pc = "reg_encoded"
     /\ \A i \in 1..Len(reg_warnings) : ~RegIsDuplicateWarning(reg_warnings[i])) =>
        /\ reg_encoded = Ok(ApplicationData(16, reg_app_data.data))
        /\ reg_app_data.data = RegRecordsPayload =>
               reg_decoded.val.registers = reg_records

\* C11 witness: a payload of two records with different IDs, the first one
\* without mantissa bytes, was decoded and encoded back to itself.
C11_Witness ==
    /\ pc = "reg_encoded"
    /\ Len(reg_records) = 2
    /\ reg_records[1].value = <<0, 0>>
    /\ reg_records[2].id_ = 128
    /\ reg_app_data.data = RegRecordsPayload
    /\ reg_warnings = <<>>
    /\ reg_decoded.val.registers = reg_records
    /\ reg_encoded = Ok(ApplicationData(16, reg_app_data.data))

\* C12: for every payload that decodes successfully, the value of every
\* RegisterData of the response is a length byte L >= 1, the sign/exponent
\* byte and exactly L mantissa bytes: len(value) = value[0] + 2 >= 3.
C12_RegisterValueWellFormed ==
    (pc = "reg_done" /\ reg_decoded.kind = "ok") =>
        \A i \in 1..Len(reg_decoded.val.registers) :
            LET value == reg_decoded.val.registers[i].value
            IN  /\ Len(value) >= 3
                /\ Len(value) = value[1] + 2

-----------------------------------------------------------------------------
(* Claims about the frames that PhysicalCodec.decode receives.             *)

\* C13: for either direction, decode of the frame that is exactly the single
\* byte 0x06 raises AckReceivedException (no data-link bytes are returned),
\* and encode_ack() returns exactly that byte, unframed, whatever the
\* direction.
C13_AckBoundary ==
    /\ (pc \in {"phys_received_done", "phys_acked"} /\ frame = <<6>>) =>
           phys_decoded = [kind |-> "AckReceivedException"]
    /\ pc = "phys_acked" => phys_ack = Ok(<<6>>)

\* C13 witness: in the direction from the meter, the single ACK byte was
\* received and an acknowledgement encoded.
C13_Witness ==
    /\ pc = "phys_acked"
    /\ direction = "FROM_METER"
    /\ frame = <<6>>
    /\ phys_decoded.kind = "AckReceivedException"
    /\ phys_ack = Ok(<<6>>)

\* The start byte of each direction, as the protocol defines it.
C14_StartByte == IF direction = "TO_METER" THEN 128 ELSE 64

\* C14: decode of an empty frame raises DataLengthUnexpectedError; decode of
\* a non-empty frame other than the single ACK byte raises
\* BoundaryByteInvalidError for the start byte (expected: the direction's
\* start byte, actual: the first byte) when the first byte is not that start
\* byte, and else BoundaryByteInvalidError for the stop byte (expected 0x0D,
\* actual: the last byte) when the last byte is not 0x0D; data-link bytes are
\* returned in none of these cases, and in every other case but the ACK.
C14_DecodeErrorOutcomes ==
    pc = "phys_received_done" =>
        /\ frame = <<>> =>
              /\ phys_decoded.kind = "DataLengthUnexpectedError"
              /\ phys_decoded.actual = 0
        /\ (frame # <<>> /\ frame # <<6>> /\ frame[1] # C14_StartByte) =>
              phys_decoded = [kind |-> "BoundaryByteInvalidError", what |-> "start",
                              actual_byte |-> frame[1],
                              expected_byte |-> C14_StartByte]
        /\ (frame # <<>> /\ frame # <<6>> /\ frame[1] = C14_StartByte
                /\ frame[Len(frame)] # 13) =>
              phys_decoded = [kind |-> "BoundaryByteInvalidError", what |-> "stop",
                              actual_byte |-> frame[Len(frame)],
                              expected_byte |-> 13]
        /\ (frame # <<>> /\ frame[1] = C14_StartByte /\ frame[Len(frame)] = 13) =>
              phys_decoded.kind = "ok"

\* C14 witness: a frame from the meter that has neither the start byte of
\* that direction nor the stop byte was refused for its start byte.
C14_Witness ==
    /\ pc = "phys_received_done"
    /\ direction = "FROM_METER"
    /\ Len(frame) = 3
    /\ frame[1] = 128
    /\ frame[3] # 13
    /\ phys_decoded.kind = "BoundaryByteInvalidError"
    /\ phys_decoded.what = "start"
    /\ phys_decoded.expected_byte = 64

-----------------------------------------------------------------------------
(* Claims about ApplicationCodec.                                          *)

\* C20: encode raises OutOfRangeError with range (0, 255) and the actual
\* value for every command ID outside 0..255, negative or too large, and
\* returns no truncated bytes; decode of empty bytes raises
\* DataLengthUnexpectedError; and for every command ID in 0..255 and every
\* data, the empty one included, decode(encode(d)) = d.
C20_ApplicationCodec ==
    /\ (pc \in {"app_encoded", "app_roundtrip_done"}
            /\ app_to_encode.command_id \notin 0..255) =>
           /\ app_encoded.kind = "OutOfRangeError"
           /\ app_encoded.valid_range = <<0, 255>>
           /\ app_encoded.actual = app_to_encode.command_id
    /\ (pc = "app_encoded" /\ app_to_encode.command_id \in 0..255) =>
           app_encoded.kind = "ok"
    /\ pc = "app_roundtrip_done" => app_decoded = Ok(app_to_encode)
    /\ (pc = "app_received_done" /\ app_bytes = <<>>) =>
           /\ app_decoded.kind = "DataLengthUnexpectedError"
           /\ app_decoded.actual = 0

\* C20 witness: command ID 255 with empty data was encoded to one byte and
\* decoded back.
C20_Witness ==
    /\ pc = "app_roundtrip_done"
    /\ app_to_encode = ApplicationData(255, <<>>)
    /\ app_bytes = <<255>>
    /\ app_decoded = Ok(app_to_encode)

-----------------------------------------------------------------------------
(* Claims about the requests and responses of messages.py.                 *)

\* C15: GetRegisterRequest.encode raises OutOfRangeError unless the number
\* of registers is in 1..8.  GetRegisterRequest.decode with the matching
\* command ID and a count byte c followed by exactly 2c bytes returns the c
\* register IDs, each the big-endian value of its two bytes, in wire order,
\* and logs a warning if and only if c is outside 1..8; when the number of
\* bytes after the count differs from 2c it raises
\* DataLengthUnexpectedError.
C15_RegisterRequestCountRules ==
    msg_class = "GetRegisterRequest" =>
        /\ pc \in {"msg_encoded", "msg_reencoded"} =>
              /\ (Len(msg_object.val.registers) \notin 1..8) =>
                    msg_encoded.kind = "OutOfRangeError"
              /\ (Len(msg_object.val.registers) \in 1..8) =>
                    msg_encoded.kind = "ok"
        /\ (/\ pc \in {"msg_decoded", "msg_reencoded"}
            /\ msg_app_data.command_id = GET_REGISTER
            /\ msg_app_data.data # <<>>) =>
              LET payload == msg_app_data.data
                  c == payload[1]
              IN  IF Len(payload) - 1 = 2 * c
                  THEN /\ msg_object.kind = "ok"
                       /\ Len(msg_object.val.registers) = c
                       /\ \A i \in 1..c :
                             msg_object.val.registers[i]
                                = (256 * payload[2 * i]) + payload[(2 * i) + 1]
                       /\ (msg_warnings # <<>>) <=> (c \notin 1..8)
                  ELSE msg_object.kind = "DataLengthUnexpectedError"

\* C15 witness: a request with count byte 255 and 510 bytes after it was
\* decoded to 255 register IDs, with a warning.
C15_Witness ==
    /\ pc = "msg_decoded"
    /\ msg_class = "GetRegisterRequest"
    /\ msg_app_data.command_id = GET_REGISTER
    /\ Len(msg_app_data.data) = 511
    /\ msg_app_data.data[1] = 255
    /\ msg_object.kind = "ok"
    /\ Len(msg_object.val.registers) = 255
    /\ msg_warnings # <<>>

\* The strict grammar of a software revision: one letter A-Z followed by one
\* to three decimal digits whose value is at most 255, and nothing else.
C16_InGrammar(s) ==
    /\ Len(s) \in 2..4
    /\ s[1] \in 65..90
    /\ \A i \in 2..Len(s) : s[i] \in 48..57
    /\ int_of_number(SubSeq(s, 2, Len(s))) <= 255

\* C16: GetTypeResponse.encode with two meter type bytes raises
\* SoftwareRevisionInvalidError for every software revision string that is
\* not one letter A-Z followed by a decimal number 0-255 with nothing before
\* or after it, a trailing newline or space included; for a string of that
\* grammar that it accepts it returns the meter type bytes followed by the
\* letter's index 1..26 and the number.
C16_StrictRevisionGrammar ==
    (/\ pc = "msg_encoded"
     /\ msg_class = "GetTypeResponse"
     /\ Len(msg_object.val.meter_type_bytes) = 2
     /\ msg_object.val.software_revision # <<>>) =>
        LET s == msg_object.val.software_revision[1]
        IN  /\ ~C16_InGrammar(s) =>
                  msg_encoded.kind = "SoftwareRevisionInvalidError"
            /\ (C16_InGrammar(s) /\ msg_encoded.kind = "ok") =>
                  /\ s[1] - 64 \in 1..26
                  /\ msg_encoded.val =
                        ApplicationData(
                            GET_TYPE,
                            msg_object.val.meter_type_bytes
                                \o <<s[1] - 64,
                                     int_of_number(SubSeq(s, 2, Len(s)))>>)

\* The decimal text of a byte.
C17_DecimalText(n) ==
    IF n < 10 THEN <<48 + n>>
    ELSE IF n < 100 THEN <<48 + (n \div 10), 48 + (n % 10)>>
    ELSE <<48 + (n \div 100), 48 + ((n \div 10) % 10), 48 + (n % 10)>>

\* C17: GetTypeResponse.decode of a payload b under the GetType command ID
\* raises DataLengthUnexpectedError unless b has 4 bytes; for 4 bytes it
\* returns meter_type_bytes = b[0:2] with an absent software revision if and
\* only if b[2:4] is 00 00; otherwise it raises OutOfRangeError with range
\* (1, 26) when b[2] is outside 1..26, and else returns the letter
\* chr(64 + b[2]) followed by the decimal text of b[3].  encode of every
\* decoded response returns b.
C17_GetTypeResponseMapping ==
    (/\ pc \in {"msg_decoded", "msg_reencoded"}
     /\ msg_class = "GetTypeResponse"
     /\ msg_app_data.command_id = GET_TYPE) =>
        LET b == msg_app_data.data
        IN  /\ IF Len(b) # 4
               THEN msg_object.kind = "DataLengthUnexpectedError"
               ELSE IF SubSeq(b, 3, 4) = <<0, 0>>
               THEN /\ msg_object.kind = "ok"
                    /\ msg_object.val.meter_type_bytes = SubSeq(b, 1, 2)
                    /\ msg_object.val.software_revision = <<>>
               ELSE IF b[3] \notin 1..26
               THEN /\ msg_object.kind = "OutOfRangeError"
                    /\ msg_object.valid_range = <<1, 26>>
               ELSE /\ msg_object.kind = "ok"
                    /\ msg_object.val.meter_type_bytes = SubSeq(b, 1, 2)
                    /\ msg_object.val.software_revision
                          = <<<<64 + b[3]>> \o C17_DecimalText(b[4])>>
            /\ pc = "msg_reencoded" =>
                  msg_encoded = Ok(ApplicationData(GET_TYPE, b))

\* C17 witness: the payload 00 04 06 01 was decoded to "F1" and encoded to
\* the same four bytes.
C17_Witness ==
    /\ pc = "msg_reencoded"
    /\ msg_class = "GetTypeResponse"
    /\ msg_app_data = ApplicationData(GET_TYPE, <<0, 4, 6, 1>>)
    /\ msg_object.val.software_revision = <<<<70, 49>>>>
    /\ msg_encoded = Ok(msg_app_data)

\* A str made solely of decimal digits.
C18_DigitsOnly(s) == s # <<>> /\ \A i \in 1..Len(s) : s[i] \in 48..57

\* C18: constructing a GetSerialResponse raises SerialNumberInvalidError for
\* every serial that is not made solely of decimal digits and OutOfRangeError
\* for every digit string whose value is above 2^32 - 1, so the serial of
\* every instance is a digit string; decode of 4 bytes gives the decimal
\* string of their big-endian value, and encode of that response returns the
\* same 4 bytes.
C18_SerialValidation ==
    msg_class = "GetSerialResponse" =>
        /\ pc \in {"msg_constructed", "msg_encoded"} =>
              /\ ~C18_DigitsOnly(msg_args.serial) =>
                    msg_object.kind = "SerialNumberInvalidError"
              /\ (/\ C18_DigitsOnly(msg_args.serial)
                  /\ ~IntLeq(int_of_str(msg_args.serial).val.magnitude,
                             SERIAL_VALUE_MAX)) =>
                    msg_object.kind = "OutOfRangeError"
        /\ (pc # "msg_new" /\ msg_object.kind = "ok") =>
              C18_DigitsOnly(msg_object.val.serial)
        /\ (/\ pc \in {"msg_decoded", "msg_reencoded"}
            /\ msg_app_data.command_id = GET_SERIAL
            /\ Len(msg_app_data.data) = 4) =>
              /\ msg_object.kind = "ok"
              /\ msg_object.val.serial = str_int(from_bytes(msg_app_data.data))
              /\ pc = "msg_reencoded" => msg_encoded = Ok(msg_app_data)

\* C19: every decode validates the command ID before the payload: when the
\* command ID of the application data differs from the one of the class,
\* decode raises MessageCidMismatchError with the expected and the actual
\* ID, whatever the payload; with the matching command ID, decode of
\* GetTypeRequest and of GetSerialRequest raises DataWithNoDataError if and
\* only if the payload is not empty.
C19_CommandIdValidatedFirst ==
    /\ (/\ pc \in {"msg_decoded", "msg_reencoded"}
        /\ msg_app_data.command_id # class_command_id(msg_class)) =>
           /\ pc = "msg_decoded"
           /\ msg_object.kind = "MessageCidMismatchError"
           /\ msg_object.cid_expected = class_command_id(msg_class)
           /\ msg_object.actual = msg_app_data.command_id
    /\ (/\ pc \in {"msg_decoded", "msg_reencoded"}
        /\ msg_class \in WithoutDataClasses
        /\ msg_app_data.command_id = class_command_id(msg_class)) =>
           /\ (msg_object.kind = "DataWithNoDataError") <=> (msg_app_data.data # <<>>)
           /\ (msg_object.kind = "ok") <=> (msg_app_data.data = <<>>)
    /\ (/\ pc \in {"reg_loop", "reg_done", "reg_encoded"}
        /\ reg_app_data.command_id # GET_REGISTER) =>
           /\ pc = "reg_done"
           /\ reg_decoded.kind = "MessageCidMismatchError"
           /\ reg_decoded.cid_expected = GET_REGISTER
           /\ reg_decoded.actual = reg_app_data.command_id

\* C19 witness: a GetRegister request with a payload that declares one
\* register and holds one byte was decoded under the GetType command ID and
\* refused for the command ID.
C19_Witness ==
    /\ pc = "msg_decoded"
    /\ msg_class = "GetRegisterRequest"
    /\ msg_app_data = ApplicationData(GET_TYPE, <<1, 0>>)
    /\ msg_object.kind = "MessageCidMismatchError"

-----------------------------------------------------------------------------
(* Claims about the errors of FloatCodec.                                  *)

\* C21: FloatCodec.decode and FloatCodec.decode_int_or_float have the same
\* kind of outcome on every input, decided in this order: empty input gives
\* DataLengthUnexpectedError; a length byte 0 gives OutOfRangeError with
\* minimum 1, whatever the total length; a total length other than the
\* length byte + 2 gives DataLengthUnexpectedError with that expected length
\* and the actual one; every other input is decoded without error by both.
C21_FloatDecodeFramingErrors ==
    pc \in {"fl_both_decoded", "fl_reencoded", "fl_wire_done"} =>
        /\ fl_int_or_float.kind = fl_decoded.kind
        /\ IF fl_data = <<>>
           THEN fl_decoded.kind = "DataLengthUnexpectedError"
           ELSE IF fl_data[1] = 0
           THEN /\ fl_decoded.kind = "OutOfRangeError"
                /\ fl_decoded.valid_range[1] = <<1>>
           ELSE IF Len(fl_data) # fl_data[1] + 2
           THEN /\ fl_decoded.kind = "DataLengthUnexpectedError"
                /\ fl_decoded.length_expected = fl_data[1] + 2
                /\ fl_decoded.actual = Len(fl_data)
           ELSE fl_decoded.kind = "ok"

\* C22: FloatCodec.encode with a fixed significand length n raises
\* UnsupportedDecimalExponentError for NaN and Infinity; else OutOfRangeError
\* with range (n, n) if the normalized mantissa needs more than n bytes; else
\* OutOfRangeError if the magnitude of the normalized exponent is above 63;
\* else it returns n + 2 bytes whose first byte is n and whose last n bytes
\* are the mantissa padded with zeros on the left.
C22_FixedLengthEncode ==
    (fl_encoded # NoResult /\ significand_num_bytes # <<>>) =>
        LET n == significand_num_bytes[1]
            t == normalize(to_encode)
        IN  IF t.special # ""
            THEN fl_encoded.kind = "UnsupportedDecimalExponentError"
            ELSE LET mantissa == int_of_digits(t.digits)
                     needed == CeilDiv(bit_length(mantissa), 8)
                 IN  IF needed > n
                     THEN /\ fl_encoded.kind = "OutOfRangeError"
                          /\ fl_encoded.valid_range = <<<<n>>, <<n>>>>
                          /\ fl_encoded.actual = needed
                     ELSE IF Abs(t.exponent) > 63
                     THEN /\ fl_encoded.kind = "OutOfRangeError"
                          /\ fl_encoded.actual = Abs(t.exponent)
                     ELSE /\ fl_encoded.kind = "ok"
                          /\ Len(fl_encoded.val) = n + 2
                          /\ fl_encoded.val[1] = n
                          /\ SubSeq(fl_encoded.val, 3, n + 2)
                                = Zeros(n - Len(mantissa)) \o mantissa

-----------------------------------------------------------------------------
(* Claims about failures of GetRegisterResponse.decode, the interior of    *)
(* physical frames, and corrupted data-link bytes.                         *)

\* The bytes left do not hold a record: fewer than the six bytes of a
\* minimal record, or fewer than the declared value length needs.
C26_Malformed(bs) == Len(bs) < 6 \/ Len(bs) < 4 + bs[4] + 1

\* C26: when GetRegisterResponse.decode meets a malformed record at any
\* position of the payload, the iteration that meets it raises
\* DataLengthUnexpectedError, whatever was decoded before, and after a
\* failure no response object exists: the outcome is the error and nothing
\* is encoded from it.
C26_NoPartialResult ==
    /\ [][(/\ pc = "reg_loop"
           /\ bytes_remaining # <<>>
           /\ C26_Malformed(bytes_remaining)) =>
             (/\ pc' = "reg_done"
              /\ reg_decoded'.kind = "DataLengthUnexpectedError")]_vars
    /\ []((pc \in {"reg_done", "reg_encoded"} /\ reg_decoded.kind # "ok") =>
             (pc = "reg_done" /\ reg_encoded = NoResult))

\* C26 witness: decode failed after two well-formed records had been put in
\* the local mapping.
C26_Witness ==
    /\ pc = "reg_done"
    /\ reg_app_data.command_id = GET_REGISTER
    /\ reg_decoded.kind = "DataLengthUnexpectedError"
    /\ Len(registers) = 2
    /\ bytes_remaining # <<>>

\* The second bytes of the escape sequences.
C27_EscapeCodes == {228, 249, 191, 127, 242}

\* C27: for either direction and every non-empty input, the frame that
\* PhysicalCodec.encode returns holds none of the bytes 06, 40, 80, 0D
\* strictly between its first and its last byte, and every 1B in between is
\* followed by one of E4, F9, BF, 7F, F2; so the first 0D of the frame is
\* its last byte, and a reader that stops at the first 0D gets the whole
\* frame.
C27_DelimiterFreeInterior ==
    (phys_encoded.kind = "ok" /\ data_bytes # <<>>) =>
        LET f == phys_encoded.val
        IN  /\ Len(f) >= 3
            /\ f[1] = _direction_to_start_byte(direction)
            /\ f[Len(f)] = STOP
            /\ \A i \in 2..(Len(f) - 1) :
                  /\ f[i] \notin {ACK, START_FROM_METER, START_TO_METER, STOP}
                  /\ f[i] = STUFFING => (i + 1 < Len(f) /\ f[i + 1] \in C27_EscapeCodes)
            /\ \A i \in 1..(Len(f) - 1) : f[i] # STOP

\* C27 witness: the five special bytes were encoded, three at a time.
C27_Witness ==
    /\ phys_encoded.kind = "ok"
    /\ data_bytes = <<STOP, STUFFING, START_TO_METER>>
    /\ phys_encoded.val
          = <<_direction_to_start_byte(direction), 27, 242, 27, 228, 27, 127, STOP>>

\* C29: every byte string got from one that DataLinkCodec.decode accepts by
\* changing exactly one byte (the address, an application byte or a checksum
\* byte) to another value is refused by decode with CrcChecksumInvalidError.
C29_SingleByteCorruptionDetected ==
    pc = "dl_corrupted_done" => dl_decoded.kind = "CrcChecksumInvalidError"

\* C29 witness: the frame encoded for address 63 and application byte 01
\* was decoded, its first checksum byte was changed and it was decoded
\* again.
C29_Witness ==
    /\ pc = "dl_corrupted_done"
    /\ dl_data = DataLinkData(63, <<1>>, NoCrc)
    /\ dl_encoded.kind = "ok"
    /\ Len(raw) = 4
    /\ SubSeq(raw, 1, 2) = <<63, 1>>
    /\ raw[3] # dl_encoded.val[3]
    /\ raw[4] = dl_encoded.val[4]
    /\ dl_decoded.kind = "CrcChecksumInvalidError"

(***************************************************************************)
(* Claim about the termination of GetRegisterResponse.decode                *)
(***************************************************************************)

\* The statement of C28 as it stands: the iterations of the loop, the one
\* that raises included, number at most len(payload) / 5.
C28_IterationsAtMostFifth == 5 * reg_iterations <= Len(reg_app_data.data)

\* C28: GetRegisterResponse.decode terminates for every payload.  Each
\* iteration of its loop either raises DataLengthUnexpectedError or shortens
\* the remaining buffer by exactly 4 + (value-length byte + 1) >= 5 bytes;
\* the iterations that return number at most len(payload) / 5 and the
\* iterations at all one more than that; and the loop is left exactly when
\* the buffer is empty or an error was raised.
C28_LoopTerminates ==
    /\ [][(pc = "reg_loop" /\ reg_iterations' # reg_iterations) =>
             \/ /\ pc' = "reg_done"
                /\ reg_decoded'.kind = "DataLengthUnexpectedError"
                /\ bytes_remaining' = bytes_remaining
             \/ /\ pc' = "reg_loop"
                /\ 4 + (bytes_remaining[4] + 1) >= 5
                /\ Len(bytes_remaining) >= 4 + (bytes_remaining[4] + 1)
                /\ bytes_remaining' =
                      SubSeq(bytes_remaining, 4 + (bytes_remaining[4] + 1) + 1,
                             Len(bytes_remaining))]_vars
    /\ [][(pc = "reg_loop" /\ pc' # "reg_loop") =>
             (bytes_remaining' = <<>>) # (reg_decoded'.kind # "ok")]_vars
    /\ [](pc = "reg_loop" =>
             5 * reg_iterations
                <= Len(reg_app_data.data) - Len(bytes_remaining))
    /\ [](5 * (reg_iterations - 1) <= Len(reg_app_data.data))
    /\ <>(pc \in {"reg_done", "reg_encoded"})

\* C28 witness: decode took four iterations for a payload of 19 bytes,
\* three that returned and one that raised.
C28_Witness ==
    /\ pc = "reg_done"
    /\ reg_iterations = 4
    /\ Len(reg_app_data.data) = 19
    /\ Len(reg_records) = 3
    /\ Len(bytes_remaining) = 1
    /\ reg_decoded.kind = "DataLengthUnexpectedError"

(***************************************************************************)
(* Claims about ClientCodec and ClientCommunicator.send_request             *)
(***************************************************************************)

\* The statement of C23 as it stands: the second byte of the frame is the
\* destination address, whatever the address.
C23_SecondByteIsAddress ==
    cl_encoded.kind = "ok" =>
        LET f == cl_encoded.val.physical_bytes
        IN  /\ f[1] = 128
            /\ f[2] = cl_destination_address
            /\ f[Len(f)] = 13

\* C23: for every destination address a in 0..255 and every request that
\* can be encoded, the frame that ClientCodec.encode returns has first byte
\* 0x80 and last byte 0x0D; its second byte is a unless a is one of the
\* special bytes 0x06, 0x0D, 0x1B, 0x40, 0x80, for which the second byte is
\* 0x1B and the third is a XOR 0xFF.
C23_FrameLayout ==
    cl_encoded.kind = "ok" =>
        LET f == cl_encoded.val.physical_bytes
        IN  /\ cl_destination_address \in 0..255
            /\ f[1] = 128
            /\ f[Len(f)] = 13
            /\ IF cl_destination_address \in {6, 13, 27, 64, 128}
               THEN f[2] = 27 /\ f[3] = 255 - cl_destination_address
               ELSE f[2] = cl_destination_address

\* C23 witness: a GetRegister request for two registers was encoded for
\* address 0x80, and the address was stuffed.
C23_Witness ==
    /\ pc = "cl_encoded"
    /\ cl_destination_address = 128
    /\ cl_message.class = "GetRegisterRequest"
    /\ cl_message.registers = <<60, 128>>
    /\ cl_encoded.kind = "ok"
    /\ SubSeq(cl_encoded.val.physical_bytes, 1, 4) = <<128, 27, 127, 16>>

\* C24: when the frame handed to ClientCodec.decode is the single byte
\* 0x06, then for each of the three request classes and every destination
\* address the outcome is NotImplementedError with the physical layer's
\* AckReceivedException as its cause: no response object, and no
\* boundary-byte, length or checksum error.
C24_AckNotImplemented ==
    (pc = "cl_done" /\ cl_received.kind = "ok" /\ cl_received.val = <<6>>) =>
        /\ cl_result = [kind |-> "NotImplementedError", cause |-> "AckReceivedException"]
        /\ \A cls \in {"GetTypeRequest", "GetSerialRequest", "GetRegisterRequest"} :
              ClientDecode(ClientCodec(cl_destination_address),
                           EncodedClientResponse(cl_received.val, cls)) = cl_result

\* C24 witness: the meter answered a GetRegister request with the single
\* byte 0x06 and send_request ended with NotImplementedError.
C24_Witness ==
    /\ pc = "cl_done"
    /\ cl_message.class = "GetRegisterRequest"
    /\ cl_incoming = <<6>>
    /\ cl_received.kind = "ok"
    /\ cl_received.val = <<6>>
    /\ cl_result.kind = "NotImplementedError"

\* The calls a send_request that got as far as reading has made: one write
\* of the whole encoded frame, then one read.
C25_OneWriteOneRead ==
    <<[call |-> "write", data |-> cl_encoded.val.physical_bytes],
      [call |-> "read", data |-> <<>>]>>

\* C25: send_request makes its calls in the order write, read, and each
\* at most once: the write is of the whole frame that ClientCodec.encode
\* returned and is the first call, the read is the second and last.  When
\* the call has ended, it has made exactly these two calls unless encoding
\* failed, in which case it has made none and its outcome is the error of
\* encode; when read received nothing, the outcome is TimeoutError, and
\* nothing is written or read after it.
C25_TimeoutsAreTerminal ==
    /\ [][cl_io' # cl_io =>
             \/ /\ cl_io = <<>>
                /\ cl_encoded.kind = "ok"
                /\ cl_io' = SubSeq(C25_OneWriteOneRead, 1, 1)
             \/ /\ cl_io = SubSeq(C25_OneWriteOneRead, 1, 1)
                /\ cl_io' = C25_OneWriteOneRead]_vars
    /\ [](pc = "cl_done" =>
             IF cl_encoded.kind # "ok"
             THEN cl_io = <<>> /\ cl_result = cl_encoded
             ELSE /\ cl_io = C25_OneWriteOneRead
                  /\ read_until_stop(cl_incoming) = <<>> <=>
                        cl_result = [kind |-> "TimeoutError"])
    /\ [][(pc = "cl_done" /\ cl_result.kind = "TimeoutError") =>
             (cl_io' = cl_io /\ cl_result' = cl_result /\ pc' = pc)]_vars

\* C25 witness: a request was written, the read timed out, and
\* send_request ended with TimeoutError after one write and one read.
C25_Witness ==
    /\ pc = "cl_done"
    /\ cl_message.class = "GetSerialRequest"
    /\ cl_encoded.kind = "ok"
    /\ cl_incoming = <<>>
    /\ cl_result = [kind |-> "TimeoutError"]
    /\ cl_io = C25_OneWriteOneRead

\* The destination addresses of the second ClientCodec.
C30_OtherAddresses == {DESTINATION_ADDRESS_DEFAULT, START_FROM_METER}

\* C30: the outcome of ClientCodec.decode does not depend on the codec's
\* destination_address: a ClientCodec with another address gives the same
\* response or the same error for the frame received and the request
\* class; and a frame whose data-link bytes pass the checksum and hold an
\* address other than the codec's is decoded like any other, to what the
\* response class makes of its application data.
C30_AddressNotChecked ==
    (pc = "cl_done" /\ cl_received.kind = "ok") =>
        /\ \A a \in C30_OtherAddresses :
              ClientDecode(ClientCodec(a),
                           EncodedClientResponse(cl_received.val, cl_message.class))
                 = cl_result
        /\ LET data_link_bytes == PhysicalDecode("FROM_METER", cl_received.val)
               data_link_data == DataLinkDecode(data_link_bytes.val)
           IN  (/\ data_link_bytes.kind = "ok"
                /\ data_link_data.kind = "ok"
                /\ data_link_data.val.destination_address # cl_destination_address) =>
                   cl_result =
                       ResponseDecode(
                           cl_message.class,
                           ApplicationDecode(data_link_data.val.application_bytes).val)

\* C30 witness: a GetSerial request was sent to address 0x3F, the response
\* came with address 0x40, and send_request returned the serial number.
C30_Witness ==
    /\ pc = "cl_done"
    /\ cl_destination_address = DESTINATION_ADDRESS_DEFAULT
    /\ cl_message.class = "GetSerialRequest"
    /\ cl_received.kind = "ok"
    /\ cl_received.val
          = ResponseFrame(START_FROM_METER,
                          ApplicationData(GET_SERIAL, <<0, STOP, STUFFING, 1>>))
    /\ cl_result.kind = "ok"
    /\ cl_result.val.serial = <<56, 53, 56, 56, 56, 49>>

=============================================================================
